---- MODULE Spec2Model ----
(***************************************************************************)
(* Model of the @Trace method decorator of nestjs-tracing                  *)
(* (src/src/decorators/trace.decorator.ts): the wrapper that opens a span  *)
(* around a decorated method, captures arguments and bodies, classifies a  *)
(* failure, hands an alert to the instance's dispatcher and always emits a *)
(* completion record and closes the span.                                  *)
(*                                                                         *)
(* JavaScript runs the wrapper on one thread, so the code between two      *)
(* awaits is one atomic step.  The wrapper has two suspension points:      *)
(* `await method.apply(this, args)` and `await this.sendUnifiedAlert(..)`. *)
(*                                                                         *)
(* JavaScript values are tagged records.  A string is a tuple of           *)
(* characters, or the JSON text of a value (json), or a truncated string.  *)
(* An object is a reference, a constructor name, an instanceof-Error flag  *)
(* and an ordered list of properties; a property value is a value or an    *)
(* accessor whose getter throws.                                           *)
(*                                                                         *)
(* Several specifications share the module.  Spec is one invocation of a   *)
(* decorated method.  DispatcherSpec is the UnifiedAlertService            *)
(* (src/unnamed/part_014): dispatches fanned out to the configured         *)
(* providers and joined with Promise.allSettled; BuiltinSpec is the same   *)
(* dispatcher over its built-in Teams, Slack and Google Chat providers.    *)
(* ClassifierSpec is one evaluation of isCriticalError.  CaptureSpec is    *)
(* one body capture, or one serialization of an object graph.              *)
(* MiddlewareSpec is one request through UserBlockStatusMiddleware.        *)
(* ConcurrentSpec is several invocations in flight at once.  Each leaves   *)
(* the others' variables at their idle values.                             *)
(***************************************************************************)
EXTENDS Integers, Sequences, FiniteSets, TLC

\* ------------------------------------------------------------------ values
Undefined == [t |-> "undefined"]
Null == [t |-> "null"]
Bool(b) == [t |-> "boolean", b |-> b]
Num(n) == [t |-> "number", n |-> n]
Str(cs) == [t |-> "string", chars |-> cs]
JsonStr(v) == [t |-> "string", json |-> v]
Prop(k, v) == [k |-> k, v |-> v]
ThrowingGetter(e) == [t |-> "getter", throws |-> e]
Obj(ref, cls, isErr, props) ==
  [t |-> "object", ref |-> ref, cls |-> cls, err |-> isErr, props |-> props]

\* the result of evaluating an expression: a value, or a thrown value
Ok(v) == [ok |-> TRUE, v |-> v]
Thrown(e) == [ok |-> FALSE, e |-> e]

IsNullish(v) == v.t \in {"undefined", "null"}
IsObject(v) == v.t = "object"

\* the TypeError the runtime raises for a property read on null/undefined or
\* for a call of a value that is not a function
RuntimeTypeError(ref) ==
  Obj(ref, "TypeError", TRUE, <<Prop("message", Str(<<"T", "E">>))>>)

\* ----------------------------------------------------------------- strings
UpperChars == <<"A", "B", "C", "D", "E", "F", "G", "H", "I", "J", "K", "L", "M",
  "N", "O", "P", "Q", "R", "S", "T", "U", "V", "W", "X", "Y", "Z">>
LowerChars == <<"a", "b", "c", "d", "e", "f", "g", "h", "i", "j", "k", "l", "m",
  "n", "o", "p", "q", "r", "s", "t", "u", "v", "w", "x", "y", "z">>

LowerChar(c) ==
  IF \E i \in 1..Len(UpperChars) : UpperChars[i] = c
  THEN LowerChars[CHOOSE i \in 1..Len(UpperChars) : UpperChars[i] = c]
  ELSE c

\* String.prototype.toLowerCase
ToLowerCase(cs) == [i \in 1..Len(cs) |-> LowerChar(cs[i])]

\* String.prototype.includes
Includes(cs, sub) ==
  \E i \in 0..(Len(cs) - Len(sub)) :
    \A j \in 1..Len(sub) : cs[i + j] = sub[j]

\* ------------------------------------------------------- property access
HasProp(o, key) == \E i \in 1..Len(o.props) : o.props[i].k = key
PropOf(o, key) == o.props[CHOOSE i \in 1..Len(o.props) : o.props[i].k = key].v

\* v[key]: a TypeError on null/undefined, undefined on a primitive or on a
\* missing property, the getter's exception on a throwing accessor
Get(v, key) ==
  IF IsNullish(v) THEN Thrown(RuntimeTypeError("te:read"))
  ELSE IF ~IsObject(v) THEN Ok(Undefined)
  ELSE IF ~HasProp(v, key) THEN Ok(Undefined)
  ELSE IF PropOf(v, key).t = "getter" THEN Thrown(PropOf(v, key).throws)
  ELSE Ok(PropOf(v, key))

\* v.constructor.name
CtorName(v) ==
  CASE v.t = "string" -> "String"
    [] v.t = "number" -> "Number"
    [] v.t = "boolean" -> "Boolean"
    [] OTHER -> v.cls

\* JavaScript truthiness
Truthy(v) ==
  CASE v.t \in {"undefined", "null"} -> FALSE
    [] v.t = "boolean" -> v.b
    [] v.t = "number" -> v.n # 0
    [] v.t = "string" -> IF "chars" \in DOMAIN v THEN Len(v.chars) > 0 ELSE TRUE
    [] OTHER -> TRUE

\* the spelling of the property names and class names the model uses
SpellingOf(k) ==
  CASE k = "id" -> <<"i", "d">>
    [] k = "type" -> <<"t", "y", "p", "e">>
    [] k = "status" -> <<"s", "t", "a", "t", "u", "s">>
    [] k = "name" -> <<"n", "a", "m", "e">>
    [] k = "code" -> <<"c", "o", "d", "e">>
    [] k = "userId" -> <<"u", "s", "e", "r", "I", "d">>
    [] k = "companyId" -> <<"c", "o", "m", "p", "a", "n", "y", "I", "d">>
    [] k = "body" -> <<"b", "o", "d", "y">>
    [] k = "params" -> <<"p", "a", "r", "a", "m", "s">>
    [] k = "query" -> <<"q", "u", "e", "r", "y">>
    [] k = "headers" -> <<"h", "e", "a", "d", "e", "r", "s">>
    [] k = "method" -> <<"m", "e", "t", "h", "o", "d">>
    [] k = "url" -> <<"u", "r", "l">>
    [] k = "path" -> <<"p", "a", "t", "h">>
    [] k = "data" -> <<"d", "a", "t", "a">>
    [] k = "payload" -> <<"p", "a", "y", "l", "o", "a", "d">>
    [] k = "requestBody" -> <<"r", "e", "q", "u", "e", "s", "t", "B", "o", "d", "y">>
    [] k = "responseBody" -> <<"r", "e", "s", "p", "o", "n", "s", "e", "B", "o", "d", "y">>
    [] k = "errorBody" -> <<"e", "r", "r", "o", "r", "B", "o", "d", "y">>
    [] k = "message" -> <<"m", "e", "s", "s", "a", "g", "e">>
    [] k = "stack" -> <<"s", "t", "a", "c", "k">>
    [] k = "critical" -> <<"c", "r", "i", "t", "i", "c", "a", "l">>
    [] k = "severity" -> <<"s", "e", "v", "e", "r", "i", "t", "y">>
    [] k = "password" -> <<"p", "a", "s", "s", "w", "o", "r", "d">>
    [] k = "apiKey" -> <<"a", "p", "i", "K", "e", "y">>
    [] k = "Password" -> <<"P", "a", "s", "s", "w", "o", "r", "d">>
    [] k = "username" -> <<"u", "s", "e", "r", "n", "a", "m", "e">>
    [] k = "token" -> <<"t", "o", "k", "e", "n">>
    [] k = "items" -> <<"i", "t", "e", "m", "s">>
    [] k = "note" -> <<"n", "o", "t", "e">>
    [] k = "low" -> <<"l", "o", "w">>
    [] k = "medium" -> <<"m", "e", "d", "i", "u", "m">>
    [] k = "high" -> <<"h", "i", "g", "h">>
    [] k = "String" -> <<"S", "t", "r", "i", "n", "g">>
    [] k = "Number" -> <<"N", "u", "m", "b", "e", "r">>
    [] k = "Boolean" -> <<"B", "o", "o", "l", "e", "a", "n">>
    [] k = "Object" -> <<"O", "b", "j", "e", "c", "t">>
    [] k = "Error" -> <<"E", "r", "r", "o", "r">>
    [] k = "TypeError" -> <<"T", "y", "p", "e", "E", "r", "r", "o", "r">>
    [] k = "ValidationError" -> <<"V", "a", "l", "i", "d", "a", "t", "i", "o", "n", "E", "r", "r", "o", "r">>
    [] k = "Array" -> <<"A", "r", "r", "a", "y">>
    [] k = "Buffer" -> <<"B", "u", "f", "f", "e", "r">>

\* ------------------------------------------------- program constants
\* the allowlist of shallow argument fields copied to span attributes
safeKeys == <<"id", "type", "status", "name", "code", "userId", "companyId">>

criticalErrorTypes == {"DatabaseConnectionError", "AuthenticationError",
  "AuthorizationError", "ValidationError", "TimeoutError", "NetworkError",
  "PaymentProcessingError", "CriticalBusinessError"}

criticalKeywords == {
  <<"c", "o", "n", "n", "e", "c", "t", "i", "o", "n", " ", "f", "a", "i", "l", "e", "d">>,
  <<"a", "u", "t", "h", "e", "n", "t", "i", "c", "a", "t", "i", "o", "n", " ", "f", "a", "i", "l", "e", "d">>,
  <<"a", "u", "t", "h", "o", "r", "i", "z", "a", "t", "i", "o", "n", " ", "f", "a", "i", "l", "e", "d">>,
  <<"t", "i", "m", "e", "o", "u", "t">>,
  <<"n", "e", "t", "w", "o", "r", "k", " ", "e", "r", "r", "o", "r">>,
  <<"d", "a", "t", "a", "b", "a", "s", "e", " ", "e", "r", "r", "o", "r">>,
  <<"c", "r", "i", "t", "i", "c", "a", "l">>,
  <<"f", "a", "t", "a", "l">>,
  <<"p", "a", "y", "m", "e", "n", "t", " ", "f", "a", "i", "l", "e", "d">>,
  <<"t", "r", "a", "n", "s", "a", "c", "t", "i", "o", "n", " ", "f", "a", "i", "l", "e", "d">>}

defaultSensitiveFields == <<
  <<"p", "a", "s", "s", "w", "o", "r", "d">>,
  <<"t", "o", "k", "e", "n">>,
  <<"s", "e", "c", "r", "e", "t">>,
  <<"k", "e", "y">>,
  <<"a", "u", "t", "h", "o", "r", "i", "z", "a", "t", "i", "o", "n">>>>

defaultMaxBodySize == 1000

REDACTED == Str(<<"[", "R", "E", "D", "A", "C", "T", "E", "D", "]">>)
TruncationMarker == <<".", ".", ".", " ", "[", "t", "r", "u", "n", "c", "a", "t", "e", "d", "]">>
ObjectObject == Str(<<"[", "o", "b", "j", "e", "c", "t", " ", "O", "b", "j", "e", "c", "t", "]">>)
StrCritical == Str(<<"c", "r", "i", "t", "i", "c", "a", "l">>)

\* ------------------------------------------------------ arrays, buffers
Arr(ref, items) ==
  [t |-> "object", ref |-> ref, cls |-> "Array", err |-> FALSE, props |-> <<>>,
   items |-> items]
IsArray(v) == v.t = "object" /\ "items" \in DOMAIN v
\* Buffer.isBuffer
IsBuffer(v) == v.t = "object" /\ v.cls = "Buffer"
\* a property that refers back to a container on the path to it
BackRef == [t |-> "backref"]

\* ---------------------------------------------------------------- JSON
\* JSON.stringify throws on a throwing getter and on a circular structure
RECURSIVE JsonStringifyThrows(_)
JsonStringifyThrows(v) ==
  IF v.t = "backref" THEN TRUE
  ELSE IF ~IsObject(v) THEN FALSE
  ELSE IF IsArray(v)
    THEN \E i \in 1..Len(v.items) : JsonStringifyThrows(v.items[i])
  ELSE \E i \in 1..Len(v.props) :
         \/ v.props[i].v.t = "getter"
         \/ v.props[i].v.t # "getter" /\ JsonStringifyThrows(v.props[i].v)

\* JSON.parse(JSON.stringify(v)): undefined members are dropped (null in an
\* array), the own message and stack of an Error are not enumerable
RECURSIVE JsonRoundTrip(_)
JsonRoundTrip(v) ==
  IF ~IsObject(v) THEN v
  ELSE IF IsArray(v)
    THEN Arr("parsed", [i \in 1..Len(v.items) |->
           IF v.items[i].t = "undefined" THEN Null ELSE JsonRoundTrip(v.items[i])])
  ELSE LET kept == SelectSeq(v.props, LAMBDA p :
                     /\ p.v.t # "undefined"
                     /\ ~(v.err /\ p.k \in {"message", "stack"}))
       IN Obj("parsed", "Object", FALSE,
              [i \in 1..Len(kept) |-> Prop(kept[i].k, JsonRoundTrip(kept[i].v))])

RECURSIVE Digits(_)
Digits(n) == IF n < 0 THEN 1 + Digits(0 - n) ELSE IF n < 10 THEN 1 ELSE 1 + Digits(n \div 10)

\* the number of characters of a string, and of the JSON text of a value
RECURSIVE StrLength(_), JsonLen(_), JsonLenItems(_, _), JsonLenProps(_, _)
StrLength(s) ==
  IF "chars" \in DOMAIN s THEN Len(s.chars)
  ELSE IF "json" \in DOMAIN s THEN JsonLen(s.json)
  ELSE s.head + Len(TruncationMarker)
JsonLen(v) ==
  CASE v.t = "string" -> StrLength(v) + 2
    [] v.t = "number" -> Digits(v.n)
    [] v.t = "boolean" -> IF v.b THEN 4 ELSE 5
    [] v.t = "null" -> 4
    [] IsArray(v) -> 2 + JsonLenItems(v.items, 1)
    [] OTHER -> 2 + JsonLenProps(v.props, 1)
JsonLenItems(items, i) ==
  IF i > Len(items) THEN 0
  ELSE JsonLen(items[i]) + (IF i < Len(items) THEN 1 ELSE 0) + JsonLenItems(items, i + 1)
JsonLenProps(props, i) ==
  IF i > Len(props) THEN 0
  ELSE Len(SpellingOf(props[i].k)) + 3 + JsonLen(props[i].v)
       + (IF i < Len(props) THEN 1 ELSE 0) + JsonLenProps(props, i + 1)

\* String(v).  The decimal text of a number and true/false are JSON texts.
ToStr(v) ==
  CASE v.t = "string" -> v
    [] v.t = "number" -> JsonStr(v)
    [] v.t = "boolean" -> JsonStr(v)
    [] v.t = "null" -> JsonStr(Null)
    [] v.t = "undefined" -> Str(<<"u", "n", "d", "e", "f", "i", "n", "e", "d">>)
    [] v.t = "object" /\ ~IsArray(v) /\ ~v.err -> ObjectObject
    [] v.t = "object" /\ ~IsArray(v) /\ v.err ->
         IF HasProp(v, "message") /\ PropOf(v, "message").t = "string"
              /\ "chars" \in DOMAIN PropOf(v, "message")
         THEN Str(SpellingOf("Error") \o <<":", " ">> \o PropOf(v, "message").chars)
         ELSE Str(SpellingOf("Error"))

\* JSON.parse fails on a text that is not JSON
JsonParseThrows(s) == "json" \notin DOMAIN s

\* ------------------------------------------------------------ redaction
KeyIsSensitive(k, sensitiveFields) ==
  \E i \in 1..Len(sensitiveFields) :
    Includes(ToLowerCase(SpellingOf(k)), ToLowerCase(sensitiveFields[i]))

\* a variant that redacts the keys of the outermost object only
sanitizeTopLevelOnly(obj, sensitiveFields) ==
  IF IsObject(obj) /\ ~IsArray(obj)
  THEN [obj EXCEPT !.props = [i \in 1..Len(obj.props) |->
         IF KeyIsSensitive(obj.props[i].k, sensitiveFields)
         THEN Prop(obj.props[i].k, REDACTED)
         ELSE obj.props[i]]]
  ELSE obj

RECURSIVE sanitizeSensitiveFields(_, _)
sanitizeSensitiveFields(obj, sensitiveFields) ==
  IF IsArray(obj)
    THEN [obj EXCEPT !.items = [i \in 1..Len(obj.items) |->
           sanitizeSensitiveFields(obj.items[i], sensitiveFields)]]
  ELSE IF IsObject(obj)
    THEN [obj EXCEPT !.props = [i \in 1..Len(obj.props) |->
           IF KeyIsSensitive(obj.props[i].k, sensitiveFields)
           THEN Prop(obj.props[i].k, REDACTED)
           ELSE Prop(obj.props[i].k,
                     sanitizeSensitiveFields(obj.props[i].v, sensitiveFields))]]
  ELSE obj

IsSpace(c) == c \in {" ", "\t", "\n"}
RECURSIVE SkipSpaces(_, _)
SkipSpaces(cs, i) ==
  IF i <= Len(cs) /\ IsSpace(cs[i]) THEN SkipSpaces(cs, i + 1) ELSE i
RECURSIVE FindQuote(_, _)
FindQuote(cs, i) ==
  IF i > Len(cs) THEN 0 ELSE IF cs[i] = "\"" THEN i ELSE FindQuote(cs, i + 1)

\* the last index of a match of /"field"\s*:\s*"[^"]*"/i that starts at i, or 0
RegexMatchEnd(cs, i, field) ==
  LET n == Len(field)
      colon == SkipSpaces(cs, i + n + 2)
      open == SkipSpaces(cs, colon + 1)
  IN IF /\ i + n + 1 <= Len(cs)
        /\ cs[i] = "\""
        /\ \A j \in 1..n : LowerChar(cs[i + j]) = LowerChar(field[j])
        /\ cs[i + n + 1] = "\""
        /\ colon <= Len(cs) /\ cs[colon] = ":"
        /\ open <= Len(cs) /\ cs[open] = "\""
     THEN FindQuote(cs, open + 1)
     ELSE 0

RECURSIVE ReplaceAll(_, _, _)
ReplaceAll(cs, i, field) ==
  IF i > Len(cs) THEN <<>>
  ELSE IF RegexMatchEnd(cs, i, field) # 0
    THEN <<"\"">> \o field \o <<"\"", ":", " ", "\"">> \o REDACTED.chars \o <<"\"">>
         \o ReplaceAll(cs, RegexMatchEnd(cs, i, field) + 1, field)
  ELSE <<cs[i]>> \o ReplaceAll(cs, i + 1, field)

RECURSIVE sanitizeString(_, _, _)
sanitizeString(cs, sensitiveFields, i) ==
  IF i > Len(sensitiveFields) THEN cs
  ELSE sanitizeString(ReplaceAll(cs, 1, sensitiveFields[i]), sensitiveFields, i + 1)

\* ------------------------------------------------------- body extraction
bodyKeys == <<"body", "data", "payload", "requestBody", "responseBody", "errorBody">>

\* the first of obj.body, obj.data, ... that is not undefined, else obj itself
RECURSIVE SelectBody(_, _)
FirstDefined(g, obj, i) ==
  IF ~g.ok THEN g
  ELSE IF g.v.t # "undefined" THEN g
  ELSE SelectBody(obj, i + 1)
SelectBody(obj, i) ==
  IF i > Len(bodyKeys) THEN Ok(obj) ELSE FirstDefined(Get(obj, bodyKeys[i]), obj, i)

BodyToString(body) ==
  IF body.t = "string" THEN body
  ELSE IF IsObject(body)
    THEN IF JsonStringifyThrows(body) THEN ToStr(body) ELSE JsonStr(JsonRoundTrip(body))
  ELSE ToStr(body)

SanitizeBodyString(bodyString, options) ==
  IF Len(options.sensitiveFields) > 0
  THEN IF JsonParseThrows(bodyString)
       THEN Str(sanitizeString(bodyString.chars, options.sensitiveFields, 1))
       ELSE JsonStr(sanitizeSensitiveFields(bodyString.json, options.sensitiveFields))
  ELSE bodyString

TruncateBodyString(bodyString, options) ==
  IF options.maxBodySize # 0 /\ StrLength(bodyString) > options.maxBodySize
  THEN [t |-> "string", head |-> options.maxBodySize, of |-> bodyString]
  ELSE bodyString

SanitizeSelected(sel, options) ==
  IF ~sel.ok THEN sel
  ELSE IF ~Truthy(sel.v) THEN Ok(Null)
  ELSE Ok(TruncateBodyString(SanitizeBodyString(BodyToString(sel.v), options), options))

\* Ok(Null), Ok(a string) or Thrown(e)
extractAndSanitizeBody(obj, options) ==
  IF ~Truthy(obj) \/ ~IsObject(obj) THEN Ok(Null)
  ELSE SanitizeSelected(SelectBody(obj, 1), options)

requestKeys == <<"body", "params", "query", "headers", "method", "url", "path">>

\* obj && (obj.body !== undefined || obj.params !== undefined || ...)
RECURSIVE AnyDefined(_, _)
DefinedOrNext(g, obj, i) ==
  IF ~g.ok THEN g
  ELSE IF g.v.t # "undefined" THEN Ok(TRUE)
  ELSE AnyDefined(obj, i + 1)
AnyDefined(obj, i) ==
  IF i > Len(requestKeys) THEN Ok(FALSE)
  ELSE DefinedOrNext(Get(obj, requestKeys[i]), obj, i)

isRequestObject(obj) == IF ~Truthy(obj) THEN Ok(FALSE) ELSE AnyDefined(obj, 1)

\* --------------------------------------------------------- classification
IsKeywordMessage(g) ==
  /\ g.ok /\ g.v.t = "string" /\ "chars" \in DOMAIN g.v
  /\ \E kw \in criticalKeywords : Includes(ToLowerCase(g.v.chars), kw)

MessageHasKeyword(error) == IsKeywordMessage(Get(error, "message"))

\* (error as any).critical === true || (error as any).severity === 'critical'
HasCriticalIndicator(c, sv) ==
  IF ~c.ok THEN c
  ELSE IF c.v = Bool(TRUE) THEN Ok(TRUE)
  ELSE IF ~sv.ok THEN sv
  ELSE IF sv.v = StrCritical THEN Ok(TRUE)
  ELSE Ok(FALSE)

\* the mutation: only options.severity is an explicit override
isCriticalErrorIgnoringImpact(error, options) ==
  IF options.severity = "critical"
    THEN Ok(TRUE)
  ELSE IF IsObject(error) /\ error.err /\ CtorName(error) \in criticalErrorTypes
    THEN Ok(TRUE)
  ELSE IF IsObject(error) /\ error.err /\ MessageHasKeyword(error)
    THEN Ok(TRUE)
  ELSE HasCriticalIndicator(Get(error, "critical"), Get(error, "severity"))

\* the mutation: the error's type is not looked at
isCriticalErrorIgnoringType(error, options) ==
  IF options.severity = "critical" \/ options.businessImpact = "critical"
    THEN Ok(TRUE)
  ELSE IF IsObject(error) /\ error.err /\ MessageHasKeyword(error)
    THEN Ok(TRUE)
  ELSE HasCriticalIndicator(Get(error, "critical"), Get(error, "severity"))

\* Ok(TRUE), Ok(FALSE), or Thrown(e) when reading error.critical throws
isCriticalError(error, options) ==
  IF options.severity = "critical" \/ options.businessImpact = "critical"
    THEN Ok(TRUE)
  ELSE IF IsObject(error) /\ error.err /\ CtorName(error) \in criticalErrorTypes
    THEN Ok(TRUE)
  ELSE IF IsObject(error) /\ error.err /\ MessageHasKeyword(error)
    THEN Ok(TRUE)
  ELSE HasCriticalIndicator(Get(error, "critical"), Get(error, "severity"))

\* ------------------------------------------------ span and span data
\* A frame is what one invocation of the wrapper has done so far: the span
\* as the tracer sees it, the spanData record, the logger calls, the calls
\* made on the instance's unifiedAlertService, and all of these in order.
AttrKey(name) == <<"attr", -1, name>>
ArgAttrKey(index, key) == <<"method.arg", index, key>>
Merge(f, g) ==
  [k \in (DOMAIN f) \cup (DOMAIN g) |-> IF k \in DOMAIN g THEN g[k] ELSE f[k]]
Step(op, what) == [op |-> op, what |-> what]
StatusRec(code, message) == [code |-> code, message |-> message]

NewFrame ==
  [span |-> [attributes |-> <<>>, events |-> <<>>, status |-> <<>>,
             exceptions |-> <<>>, ended |-> 0],
   spanData |-> [attributes |-> <<>>, events |-> <<>>, status |-> Null,
                 error |-> Null],
   log |-> <<>>,
   alerts |-> <<>>,
   applied |-> 0,
   trace |-> <<>>]

\* span.setAttributes(a); spanData.attributes = {...spanData.attributes, ...a}
SetAttributes(f, a, what) ==
  [f EXCEPT !.span.attributes = Merge(@, a),
            !.spanData.attributes = Merge(@, a),
            !.trace = Append(@, Step("setAttributes", what))]

\* span.addEvent(name, ..); spanData.events.push({name, ..})
AddEvent(f, name) ==
  [f EXCEPT !.span.events = Append(@, name),
            !.spanData.events = Append(@, name),
            !.trace = Append(@, Step("addEvent", name))]

SetStatus(f, code, message) ==
  [f EXCEPT !.span.status = Append(@, StatusRec(code, message)),
            !.trace = Append(@, Step("setStatus", code))]

LoggerCall(f, level, what) ==
  [f EXCEPT !.log = Append(@, [level |-> level, what |-> what, record |-> Null]),
            !.trace = Append(@, Step(level, what))]

\* how a segment of the wrapper's body ends: fell through (Ok), or threw
Done(f, r) == [f |-> f, r |-> r]

\* ---------------------------------------------------- argument capture
BaseAttributes(options, args) ==
  Merge([k \in {AttrKey("service.name"), AttrKey("method.name"),
                AttrKey("method.args.count"), AttrKey("teams.alert.enabled"),
                AttrKey("teams.alert.severity"),
                AttrKey("teams.alert.business_impact"),
                AttrKey("teams.alert.user_affected")} |->
          CASE k = AttrKey("service.name") -> Str(<<"S">>)
            [] k = AttrKey("method.name") -> Str(<<"m">>)
            [] k = AttrKey("method.args.count") -> Num(Len(args))
            [] k = AttrKey("teams.alert.enabled") -> Bool(TRUE)
            [] k = AttrKey("teams.alert.severity") -> Str(SpellingOf(options.severity))
            [] k = AttrKey("teams.alert.business_impact") ->
                 Str(SpellingOf(options.businessImpact))
            [] k = AttrKey("teams.alert.user_affected") -> Bool(options.userAffected)],
        options.customContext)

\* the first safe key of arg whose read throws, if any
RECURSIVE ReadSafeKeys(_, _)
ReadSafeKeys(arg, i) ==
  IF i > Len(safeKeys) THEN Ok(Undefined)
  ELSE IF ~Get(arg, safeKeys[i]).ok THEN Get(arg, safeKeys[i])
  ELSE ReadSafeKeys(arg, i + 1)

SafeArgAttributes(arg, index) ==
  [k \in {ArgAttrKey(index, safeKeys[i]) :
            i \in {j \in 1..Len(safeKeys) : Get(arg, safeKeys[j]).v.t # "undefined"}} |->
     ToStr(Get(arg, k[3]).v)]

SizeKey(prefix) ==
  CASE prefix = "request.body" -> "request.body.size"
    [] prefix = "response.body" -> "response.body.size"
    [] prefix = "error.body" -> "error.body.size"

BodyAttributes(prefix, body) ==
  [k \in {AttrKey(prefix), AttrKey(SizeKey(prefix))} |->
     IF k = AttrKey(prefix) THEN body ELSE Num(StrLength(body))]

\* if (requestBody) { span.setAttributes(..); spanData.attributes = .. }
AttachBody(f, body, prefix) ==
  IF ~body.ok THEN Done(f, body)
  ELSE IF ~Truthy(body.v) THEN Done(f, Ok(Undefined))
  ELSE Done(SetAttributes(f, BodyAttributes(prefix, body.v), prefix), Ok(Undefined))

AttachRequestBody(f, isReq, arg, options) ==
  IF ~isReq.ok THEN Done(f, isReq)
  ELSE IF ~isReq.v THEN Done(f, Ok(Undefined))
  ELSE AttachBody(f, extractAndSanitizeBody(arg, options), "request.body")

CaptureRequestBody(f, arg, options) ==
  IF ~options.includeRequestBody THEN Done(f, Ok(Undefined))
  ELSE AttachRequestBody(f, isRequestObject(arg), arg, options)

AttachSafeAttributes(f, a) ==
  IF DOMAIN a # {} THEN SetAttributes(f, a, "method.arg") ELSE f

CaptureSafeKeys(f, read, arg, index, options) ==
  IF ~read.ok THEN Done(f, read)
  ELSE CaptureRequestBody(AttachSafeAttributes(f, SafeArgAttributes(arg, index)),
                          arg, options)

\* the body of args.forEach((arg, index) => ...)
CaptureArg(f, arg, index, options) ==
  IF ~(Truthy(arg) /\ IsObject(arg) /\ ~IsBuffer(arg)) THEN Done(f, Ok(Undefined))
  ELSE CaptureSafeKeys(f, ReadSafeKeys(arg, 1), arg, index, options)

RECURSIVE CaptureArgs(_, _, _, _)
CaptureNext(one, args, i, options) ==
  IF ~one.r.ok THEN one ELSE CaptureArgs(one.f, args, i + 1, options)
CaptureArgs(f, args, i, options) ==
  IF i > Len(args) THEN Done(f, Ok(Undefined))
  ELSE CaptureNext(CaptureArg(f, args[i], i - 1, options), args, i, options)

\* ------------------------------------------------------- alert hand-off
FirstTruthy(attributes, names) ==
  IF \E i \in 1..Len(names) :
       AttrKey(names[i]) \in DOMAIN attributes /\ Truthy(attributes[AttrKey(names[i])])
  THEN attributes[AttrKey(names[
         CHOOSE i \in 1..Len(names) :
           /\ AttrKey(names[i]) \in DOMAIN attributes
           /\ Truthy(attributes[AttrKey(names[i])])
           /\ \A j \in 1..(i - 1) :
                ~(AttrKey(names[j]) \in DOMAIN attributes
                  /\ Truthy(attributes[AttrKey(names[j])]))])]
  ELSE Undefined

extractUserContext(span, options) ==
  IF ~options.includeUserContext THEN [userId |-> Undefined, companyId |-> Undefined]
  ELSE [userId |-> FirstTruthy(span.attributes, <<"user.id", "user_id", "userId">>),
        companyId |-> FirstTruthy(span.attributes,
                                  <<"company.id", "company_id", "companyId">>)]

extractHttpContext(span, options) ==
  IF ~options.includeHttpContext THEN [httpMethod |-> Undefined, httpUrl |-> Undefined]
  ELSE [httpMethod |-> IF AttrKey("http.method") \in DOMAIN span.attributes
                       THEN span.attributes[AttrKey("http.method")] ELSE Undefined,
        httpUrl |-> IF AttrKey("http.url") \in DOMAIN span.attributes
                    THEN span.attributes[AttrKey("http.url")] ELSE Undefined]

AlertData(span, error, options) ==
  [error |-> error,
   userId |-> extractUserContext(span, options).userId,
   companyId |-> extractUserContext(span, options).companyId,
   httpMethod |-> extractHttpContext(span, options).httpMethod,
   httpUrl |-> extractHttpContext(span, options).httpUrl,
   severity |-> options.severity,
   businessImpact |-> options.businessImpact]

CallDispatcher(f, kind, alertData) ==
  [f EXCEPT !.alerts = Append(@, [kind |-> kind, data |-> alertData]),
            !.trace = Append(@, Step("alert", kind))]

\* AlertRoute without the alertOnCriticalError test
AlertRouteIgnoringCriticalFlag(isCritical, options) ==
  IF isCritical THEN "sendCriticalErrorAlert"
  ELSE IF options.alertOnError THEN "sendErrorAlert"
  ELSE "none"

\* which dispatcher method sendUnifiedAlert calls, "none" when neither
AlertRoute(isCritical, options) ==
  IF isCritical /\ options.alertOnCriticalError THEN "sendCriticalErrorAlert"
  ELSE IF options.alertOnError THEN "sendErrorAlert"
  ELSE "none"

\* the call of the dispatcher method and what follows it in sendUnifiedAlert
CallRoute(f, route, alertData, callThrows) ==
  IF route = "none" THEN Done(f, Ok(FALSE))
  ELSE IF callThrows
    THEN Done(LoggerCall(CallDispatcher(f, route, alertData),
                         "error", "Failed to send unified alert"), Ok(FALSE))
  ELSE Done(CallDispatcher(f, route, alertData), Ok(TRUE))

RouteAlert(f, crit, error, options, callThrows) ==
  IF ~crit.ok
    THEN Done(LoggerCall(f, "error", "Failed to send unified alert"), Ok(FALSE))
  ELSE CallRoute(f, AlertRoute(crit.v, options), AlertData(f.span, error, options),
                 callThrows)

\* sendUnifiedAlert up to its await.  self is the instance (this); callThrows
\* says whether the dispatcher method throws instead of returning a promise.
\* The result's r is Ok(TRUE) when a dispatcher promise is awaited,
\* Ok(FALSE) when the function has returned.
sendUnifiedAlert(f, error, options, self, callThrows) ==
  IF ~self.unifiedAlertService
    THEN Done(LoggerCall(f, "warn", "UnifiedAlertService not available"), Ok(FALSE))
  ELSE RouteAlert(f, isCriticalError(error, options), error, options, callThrows)

\* ------------------------------------------------- the wrapper's segments
\* how a segment leaves the try/catch: r is the value it returns or throws;
\* suspended says that it stopped at an await instead, pending that the
\* await is on a promise of the dispatcher
Leave(f, r) == [f |-> f, r |-> r, suspended |-> FALSE, pending |-> FALSE]
Suspend(sent) ==
  [f |-> sent.f, r |-> Ok(Undefined), suspended |-> TRUE, pending |-> sent.r.v]

\* error instanceof Error ? error.message : String(error)
ErrorStatusMessage(error) ==
  IF IsObject(error) /\ error.err THEN Get(error, "message").v ELSE ToStr(error)

ErrorBodyAttributes(error, body) ==
  Merge([k \in {AttrKey("error"), AttrKey("error.type")} |->
          IF k = AttrKey("error") THEN Bool(TRUE)
          ELSE Str(SpellingOf(CtorName(error)))],
        IF Truthy(body) THEN BodyAttributes("error.body", body) ELSE <<>>)

\* AlertStep without the alertOnError test
AlertStepUngated(f, error, options, self, callThrows) ==
  IF ~self.sendUnifiedAlert THEN Leave(f, Thrown(RuntimeTypeError("te:call")))
  ELSE Suspend(sendUnifiedAlert(f, error, options, self, callThrows))

\* if (finalOptions.alertOnError) await this.sendUnifiedAlert(...); throw error
\* this.sendUnifiedAlert is looked up on the instance
AlertStep(f, error, options, self, callThrows) ==
  IF ~options.alertOnError THEN Leave(f, Thrown(error))
  ELSE IF ~self.sendUnifiedAlert THEN Leave(f, Thrown(RuntimeTypeError("te:call")))
  ELSE Suspend(sendUnifiedAlert(f, error, options, self, callThrows))

\* CatchAttributes that attaches the error attributes after the alert step
WithErrorAttributes(seg, attributes) ==
  [seg EXCEPT !.f = SetAttributes(@, attributes, "error")]
CatchAttributesAfterAlert(f, body, error, options, self, callThrows) ==
  IF ~body.ok THEN Leave(f, body)
  ELSE WithErrorAttributes(AlertStep(f, error, options, self, callThrows),
                           ErrorBodyAttributes(error, body.v))

\* errorAttributes, the error body, span.setAttributes(errorAttributes)
CatchAttributes(f, body, error, options, self, callThrows) ==
  IF ~body.ok THEN Leave(f, body)
  ELSE AlertStep(SetAttributes(f, ErrorBodyAttributes(error, body.v), "error"),
                 error, options, self, callThrows)

\* CatchRecord that fills spanData.error only for an instance of Error
CatchRecordErrorOnlyForErrors(f, msg, error, options, self, callThrows) ==
  IF ~msg.ok THEN Leave(f, msg)
  ELSE CatchAttributes(
         [f EXCEPT !.spanData.status = StatusRec("ERROR", msg.v),
                   !.span.exceptions = Append(@, error),
                   !.trace = Append(@, Step("recordException", "error")),
                   !.spanData.error =
                     IF IsObject(error) /\ error.err
                     THEN [message |-> msg.v, type |-> CtorName(error),
                           stack |-> Get(error, "stack").v]
                     ELSE Null],
         IF options.includeErrorBody /\ Truthy(error)
         THEN extractAndSanitizeBody(error, options) ELSE Ok(Null),
         error, options, self, callThrows)

\* spanData.status, span.recordException(error), spanData.error
CatchRecord(f, msg, error, options, self, callThrows) ==
  IF ~msg.ok THEN Leave(f, msg)
  ELSE CatchAttributes(
         [f EXCEPT !.spanData.status = StatusRec("ERROR", msg.v),
                   !.span.exceptions = Append(@, error),
                   !.trace = Append(@, Step("recordException", "error")),
                   !.spanData.error = [message |-> msg.v,
                                       type |-> CtorName(error),
                                       stack |-> Get(error, "stack").v]],
         IF options.includeErrorBody /\ Truthy(error)
         THEN extractAndSanitizeBody(error, options) ELSE Ok(Null),
         error, options, self, callThrows)

\* CatchBlock that sets the span status after reading error.message
CatchBlockStatusAfterMessage(f, error, options, self, callThrows) ==
  CatchRecord(IF Get(error, "message").ok
              THEN SetStatus(f, "ERROR", ErrorStatusMessage(error)) ELSE f,
              Get(error, "message"), error, options, self, callThrows)

\* the catch block, up to `await this.sendUnifiedAlert(...)` or to its throw
CatchBlock(f, error, options, self, callThrows) ==
  CatchRecord(SetStatus(f, "ERROR", ErrorStatusMessage(error)),
              Get(error, "message"), error, options, self, callThrows)

\* Finally that closes the span only when the try block returned
FinallyEndsOnlyOnSuccess(f, r) ==
  Leave([f EXCEPT !.log = Append(@, [level |-> "log",
                                     what |-> "Service Span Complete",
                                     record |-> f.spanData]),
                  !.trace = IF r.ok
                            THEN Append(Append(@, Step("log", "Service Span Complete")),
                                        Step("end", "span"))
                            ELSE Append(@, Step("log", "Service Span Complete")),
                  !.span.ended = IF r.ok THEN @ + 1 ELSE @],
        r)

\* Finally that closes the span before it logs the completion record
FinallyEndsBeforeLog(f, r) ==
  Leave([f EXCEPT !.log = Append(@, [level |-> "log",
                                     what |-> "Service Span Complete",
                                     record |-> f.spanData]),
                  !.trace = Append(Append(@, Step("end", "span")),
                                   Step("log", "Service Span Complete")),
                  !.span.ended = @ + 1],
        r)

\* the finally block, then the wrapper settles with r
Finally(f, r) ==
  Leave([f EXCEPT !.log = Append(@, [level |-> "log",
                                     what |-> "Service Span Complete",
                                     record |-> f.spanData]),
                  !.trace = Append(Append(@, Step("log", "Service Span Complete")),
                                   Step("end", "span")),
                  !.span.ended = @ + 1],
        r)

\* a segment that has left the try/catch runs the finally block
Settle(seg) == IF seg.suspended THEN seg ELSE Finally(seg.f, seg.r)

\* span.addEvent('method.execution.start'); method.apply(this, args)
StartOperation(cap) ==
  IF ~cap.r.ok THEN cap
  ELSE Done([AddEvent(cap.f, "method.execution.start") EXCEPT
               !.applied = @ + 1,
               !.trace = Append(@, Step("method.apply", "operation"))],
            Ok(Undefined))

\* the try block up to `await method.apply(this, args)`
TryPrefix(f, args, options) ==
  StartOperation(
    IF options.includeArgs
    THEN CaptureArgs(SetAttributes(f, BaseAttributes(options, args), "base"),
                     args, 1, options)
    ELSE Done(SetAttributes(f, BaseAttributes(options, args), "base"), Ok(Undefined)))

\* Succeed that sets the status before it adds the success event
SucceedStatusBeforeEvent(att, result) ==
  IF ~att.r.ok THEN att
  ELSE Done([AddEvent(SetStatus(att.f, "OK", Undefined), "method.execution.success")
               EXCEPT !.spanData.status =
                 StatusRec("OK", Str(<<"S", "u", "c", "c", "e", "s", "s">>))],
            Ok(result))

\* the success event, span.setStatus(OK), spanData.status, return result
Succeed(att, result) ==
  IF ~att.r.ok THEN att
  ELSE Done([SetStatus(AddEvent(att.f, "method.execution.success"), "OK", Undefined)
               EXCEPT !.spanData.status =
                 StatusRec("OK", Str(<<"S", "u", "c", "c", "e", "s", "s">>))],
            Ok(result))

\* the try block after the await, when the operation returned result
TrySuffix(f, result, options) ==
  Succeed(IF options.includeResponseBody /\ Truthy(result)
          THEN AttachBody(f, extractAndSanitizeBody(result, options), "response.body")
          ELSE Done(f, Ok(Undefined)),
          result)

\* ------------------------------------------------------------- inputs
\* a small maxBodySize, so that bodies of the model get truncated
SmallBodySize == 12

MsgNotFound == Str(<<"U", "s", "e", "r", " ", "n", "o", "t", " ", "f", "o", "u", "n", "d", ":", " ", "u", "1">>)
MsgTimeout == Str(<<"G", "a", "t", "e", "w", "a", "y", " ", "T", "i", "m", "e", "o", "u", "t">>)
MsgInvalid == Str(<<"I", "n", "v", "a", "l", "i", "d", " ", "I", "D">>)
StackText == Str(<<"a", "t", " ", "m">>)
GetterError ==
  Obj("e:getter", "Error", TRUE,
      <<Prop("message", Str(<<"g", "e", "t">>)), Prop("stack", StackText)>>)

ErrNotFound ==
  Obj("e:notfound", "Error", TRUE,
      <<Prop("message", MsgNotFound), Prop("stack", StackText)>>)
ErrTimeout ==
  Obj("e:timeout", "Error", TRUE,
      <<Prop("message", MsgTimeout), Prop("stack", StackText)>>)
ErrValidation ==
  Obj("e:validation", "ValidationError", TRUE,
      <<Prop("message", MsgInvalid), Prop("stack", StackText),
        Prop("data", Obj("d1", "Object", FALSE,
                         <<Prop("token", Str(<<"t", "k">>)), Prop("code", Num(7))>>))>>)
ErrBodyGetter ==
  Obj("e:bodygetter", "Error", TRUE,
      <<Prop("message", MsgInvalid), Prop("stack", StackText),
        Prop("body", ThrowingGetter(GetterError))>>)
ObjCriticalFlag ==
  Obj("e:flag", "Object", FALSE, <<Prop("critical", Bool(TRUE))>>)
StrBoom == Str(<<"b", "o", "o", "m">>)

\* what the operation may throw
ThrownValues ==
  {ErrNotFound, ErrTimeout, ErrValidation, ErrBodyGetter, ObjCriticalFlag,
   StrBoom, Null, Undefined}

UserBody ==
  Obj("b1", "Object", FALSE,
      <<Prop("username", Str(<<"b", "o", "b">>)),
        Prop("password", Str(<<"s", "3">>)),
        Prop("apiKey", Str(<<"k", "1">>))>>)
PlainArg ==
  Obj("a:plain", "Object", FALSE,
      <<Prop("id", Str(<<"u", "1">>)), Prop("code", Num(42))>>)
RequestArg ==
  Obj("a:req", "Object", FALSE,
      <<Prop("body", UserBody), Prop("method", Str(<<"P", "O", "S", "T">>))>>)
TextRequestArg ==
  Obj("a:text", "Object", FALSE,
      <<Prop("body", Str(<<"x", " ", "\"", "t", "o", "k", "e", "n", "\"", ":", " ", "\"", "a", "b", "c", "\"", " ", "y">>))>>)
ThrowingIdArg ==
  Obj("a:idgetter", "Object", FALSE, <<Prop("id", ThrowingGetter(GetterError))>>)
ThrowingBodyArg ==
  Obj("a:bodygetter", "Object", FALSE,
      <<Prop("name", Str(<<"n">>)), Prop("body", ThrowingGetter(GetterError))>>)

\* the argument lists of an invocation
ArgLists ==
  {<<>>, <<Str(<<"u", "1">>)>>, <<PlainArg>>, <<RequestArg>>, <<TextRequestArg>>,
   <<ThrowingIdArg>>, <<PlainArg, ThrowingBodyArg>>}

ResultObject ==
  Obj("r:obj", "Object", FALSE,
      <<Prop("id", Str(<<"u", "1">>)), Prop("status", Str(<<"o", "k">>)),
        Prop("token", Str(<<"t", "k">>))>>)
ResultThrowingBody ==
  Obj("r:bodygetter", "Object", FALSE, <<Prop("body", ThrowingGetter(GetterError))>>)

\* what the operation may return
ResultValues ==
  {Undefined, Str(<<"s", "u", "c", "c", "e", "s", "s">>), ResultObject,
   ResultThrowingBody}

UserContext == [k \in {AttrKey("user.id")} |-> Str(<<"u", "7">>)]

\* capture settings of a decoration: includeArgs, includeRequestBody,
\* includeResponseBody, includeErrorBody, maxBodySize, sensitiveFields,
\* customContext, includeUserContext and includeHttpContext
CaptureSettings ==
  {<<TRUE, TRUE, TRUE, TRUE, defaultMaxBodySize, defaultSensitiveFields, <<>>, TRUE>>,
   <<FALSE, TRUE, TRUE, TRUE, SmallBodySize, defaultSensitiveFields, UserContext, TRUE>>,
   <<TRUE, FALSE, FALSE, FALSE, defaultMaxBodySize, <<>>, UserContext, FALSE>>,
   <<TRUE, TRUE, TRUE, TRUE, SmallBodySize, <<>>, <<>>, TRUE>>}

\* the resolved TraceOptions of a decoration
OptionsSet ==
  {[alertOnError |-> a, alertOnCriticalError |-> c,
    severity |-> sv[1], businessImpact |-> sv[2], userAffected |-> FALSE,
    includeArgs |-> cp[1], includeRequestBody |-> cp[2],
    includeResponseBody |-> cp[3], includeErrorBody |-> cp[4],
    maxBodySize |-> cp[5], sensitiveFields |-> cp[6],
    customContext |-> cp[7], includeUserContext |-> cp[8],
    includeHttpContext |-> cp[8]] :
   a \in BOOLEAN, c \in BOOLEAN,
   sv \in {<<"medium", "medium">>, <<"critical", "medium">>, <<"low", "critical">>},
   cp \in CaptureSettings}

\* the instance the method is called on: whether it has a unifiedAlertService
\* member, and whether a sendUnifiedAlert member can be found on it.  The
\* decorator stores sendUnifiedAlert on the wrapper function
\* (descriptor.value), not on the target, so an instance has one only when
\* its class supplies it.
Instances == [unifiedAlertService : BOOLEAN, sendUnifiedAlert : BOOLEAN]

\* -------------------------------------------------------------- state
\* one invocation of a decorated method
VARIABLES options, self, pc, args, frame, caught, alertPending,
          opState, opValue, outState, outValue

\* the UnifiedAlertService: its provider registry, each provider's
\* isConfigured(), the dispatch in flight, every provider send call made so
\* far, the service's logger calls, the dispatches requested and how each
\* of them settled
VARIABLES providers, configured, dpc, calls, svcLog, requests, outcomes, webhooks

\* one evaluation of isCriticalError
VARIABLES clsError, clsOptions, clsResult

\* one capture of a body: the value and options it is called with (and a
\* second value that differs from it only under sensitive keys), and what
\* the capture of each produced
VARIABLES capInput, capOut

\* one request through UserBlockStatusMiddleware
VARIABLES mw

\* several invocations of a decorated method in flight at once: the control
\* state of each, and the span and spanData each handle stands for
VARIABLES invs, store

wrapperVars == <<options, self, pc, args, frame, caught, alertPending,
                 opState, opValue, outState, outValue>>
dispatcherVars ==
  <<providers, configured, dpc, calls, svcLog, requests, outcomes, webhooks>>
classifierVars == <<clsError, clsOptions, clsResult>>
captureVars == <<capInput, capOut>>
middlewareVars == <<mw>>
concurrentVars == <<invs, store>>

vars == <<wrapperVars, dispatcherVars, classifierVars, captureVars,
          middlewareVars, concurrentVars>>

\* what the steps of one part leave untouched
otherThanWrapper ==
  <<dispatcherVars, classifierVars, captureVars, middlewareVars, concurrentVars>>
otherThanDispatcher ==
  <<wrapperVars, classifierVars, captureVars, middlewareVars, concurrentVars>>
otherThanClassifier ==
  <<wrapperVars, dispatcherVars, captureVars, middlewareVars, concurrentVars>>
otherThanCapture ==
  <<wrapperVars, dispatcherVars, classifierVars, middlewareVars, concurrentVars>>
otherThanMiddleware ==
  <<wrapperVars, dispatcherVars, classifierVars, captureVars, concurrentVars>>
otherThanConcurrent ==
  <<wrapperVars, dispatcherVars, classifierVars, captureVars, middlewareVars>>

\* the parts of the state a specification does not exercise stay as they are
\* before anything was called
WrapperIdle ==
  /\ options = CHOOSE o \in OptionsSet : TRUE
  /\ self = CHOOSE i \in Instances : TRUE
  /\ pc = "idle"
  /\ args = <<>>
  /\ frame = NewFrame
  /\ caught = Undefined
  /\ alertPending = FALSE
  /\ opState = "none"
  /\ opValue = Undefined
  /\ outState = "none"
  /\ outValue = Undefined

DispatcherIdle ==
  /\ providers = <<>>
  /\ configured = <<>>
  /\ dpc = "idle"
  /\ calls = <<>>
  /\ svcLog = <<>>
  /\ requests = <<>>
  /\ outcomes = <<>>
  /\ webhooks = <<>>

ClassifierIdle ==
  /\ clsError = Undefined
  /\ clsOptions = CHOOSE o \in OptionsSet : TRUE
  /\ clsResult = <<>>

CaptureIdle ==
  /\ capInput = <<>>
  /\ capOut = <<>>

MiddlewareIdle == mw = <<>>

ConcurrentIdle ==
  /\ invs = <<>>
  /\ store = <<>>

Init ==
  /\ options \in OptionsSet
  /\ self \in Instances
  /\ pc = "idle"
  /\ args = <<>>
  /\ frame = NewFrame
  /\ caught = Undefined
  /\ alertPending = FALSE
  /\ opState = "none"
  /\ opValue = Undefined
  /\ outState = "none"
  /\ outValue = Undefined
  /\ DispatcherIdle
  /\ ClassifierIdle
  /\ CaptureIdle
  /\ MiddlewareIdle
  /\ ConcurrentIdle

\* the wrapper either stops at the await of the alert or settles
Continue(seg, error) ==
  /\ frame' = seg.f
  /\ pc' = IF seg.suspended THEN "awaitAlert" ELSE "done"
  /\ caught' = error
  /\ alertPending' = seg.pending
  /\ outState' = IF seg.suspended THEN "none"
                 ELSE IF seg.r.ok THEN "returned" ELSE "threw"
  /\ outValue' = IF seg.suspended THEN Undefined
                 ELSE IF seg.r.ok THEN seg.r.v ELSE seg.r.e

\* the catch block and, unless it stops at the await, the finally block
Catch(f, error, callThrows) ==
  Continue(Settle(CatchBlock(f, error, options, self, callThrows)), error)

\* the decorated method is called; the operation returns a promise
Started(pre, callThrows) ==
  IF pre.r.ok
  THEN /\ frame' = pre.f
       /\ pc' = "awaitOp"
       /\ opState' = "pending"
       /\ UNCHANGED <<caught, alertPending, outState, outValue>>
  ELSE /\ Catch(pre.f, pre.r.e, callThrows)
       /\ UNCHANGED opState

Invoke(a, callThrows) ==
  /\ pc = "idle"
  /\ args' = a
  /\ Started(TryPrefix(NewFrame, a, options), callThrows)
  /\ UNCHANGED <<options, self, opValue>>
  /\ UNCHANGED otherThanWrapper

\* the decorated method is called; the operation throws before returning
StartedThrowing(pre, e, callThrows) ==
  /\ pre.r.ok
  /\ Catch(pre.f, e, callThrows)

InvokeThrowing(a, e, callThrows) ==
  /\ pc = "idle"
  /\ args' = a
  /\ opState' = "threw"
  /\ opValue' = e
  /\ StartedThrowing(TryPrefix(NewFrame, a, options), e, callThrows)
  /\ UNCHANGED <<options, self>>
  /\ UNCHANGED otherThanWrapper

\* the operation's promise fulfils with result
Returned(suf, callThrows) ==
  IF suf.r.ok
  THEN Continue(Finally(suf.f, suf.r), Undefined)
  ELSE Catch(suf.f, suf.r.e, callThrows)

OpReturns(result, callThrows) ==
  /\ pc = "awaitOp"
  /\ opState' = "returned"
  /\ opValue' = result
  /\ Returned(TrySuffix(frame, result, options), callThrows)
  /\ UNCHANGED <<options, self, args>>
  /\ UNCHANGED otherThanWrapper

\* the operation's promise rejects with e
OpThrows(e, callThrows) ==
  /\ pc = "awaitOp"
  /\ opState' = "threw"
  /\ opValue' = e
  /\ Catch(frame, e, callThrows)
  /\ UNCHANGED <<options, self, args>>
  /\ UNCHANGED otherThanWrapper

\* sendUnifiedAlert returns: the dispatcher's promise fulfilled, or there
\* was none; the wrapper throws the caught error
AlertFulfils ==
  /\ pc = "awaitAlert"
  /\ Continue(Finally(frame, Thrown(caught)), caught)
  /\ UNCHANGED <<options, self, args, opState, opValue>>
  /\ UNCHANGED otherThanWrapper

\* the dispatcher's promise rejects: sendUnifiedAlert logs it and returns
AlertRejects ==
  /\ pc = "awaitAlert"
  /\ alertPending
  /\ Continue(Finally(LoggerCall(frame, "error", "Failed to send unified alert"),
                      Thrown(caught)), caught)
  /\ UNCHANGED <<options, self, args, opState, opValue>>
  /\ UNCHANGED otherThanWrapper

Next ==
  \/ \E a \in ArgLists, ct \in BOOLEAN : Invoke(a, ct)
  \/ \E a \in ArgLists, e \in ThrownValues, ct \in BOOLEAN : InvokeThrowing(a, e, ct)
  \/ \E v \in ResultValues, ct \in BOOLEAN : OpReturns(v, ct)
  \/ \E e \in ThrownValues, ct \in BOOLEAN : OpThrows(e, ct)
  \/ AlertFulfils
  \/ AlertRejects

Spec == Init /\ [][Next]_vars

\* ------------------------------------------------------------ properties
Settled == pc = "done"
CompletionStep == Step("log", "Service Span Complete")
EndStep == Step("end", "span")
StepsOf(st) == {i \in 1..Len(frame.trace) : frame.trace[i] = st}
CompletionRecords ==
  {i \in 1..Len(frame.log) : frame.log[i].what = "Service Span Complete"}
AlertFailureLogged ==
  \E i \in 1..Len(frame.log) : frame.log[i].what = "Failed to send unified alert"
\* the errors of the model whose error body can be captured
PlainErrors == {ErrNotFound, ErrTimeout, ErrValidation}

\* C1: whenever the operation throws, the decorated method throws that same
\* value to its caller, for every configuration and every instance
C1_RethrowsOriginal ==
  (Settled /\ opState = "threw") => (outState = "threw" /\ outValue = opValue)

\* C2: the decorated method returns the operation's return value if the
\* operation returns, and throws if and only if the operation throws
C2_SameOutcome ==
  Settled =>
    /\ opState = "returned" => (outState = "returned" /\ outValue = opValue)
    /\ (outState = "threw") <=> (opState = "threw")

\* C3: the span is closed exactly once when the invocation settles, on every
\* exit path, and it is never closed twice nor closed before that
C3_SpanClosedExactlyOnce ==
  /\ frame.span.ended <= 1
  /\ Settled <=> frame.span.ended = 1
  /\ Cardinality(StepsOf(EndStep)) = frame.span.ended

C3_Witness ==
  /\ Settled /\ opState = "threw" /\ opValue = Undefined
  /\ frame.span.ended = 1

C5_ErrorIffStatusError ==
  \A i \in CompletionRecords :
    (frame.log[i].record.error # Null)
      <=> (IF frame.log[i].record.status = Null THEN FALSE
           ELSE frame.log[i].record.status.code = "ERROR")

C5_Witness ==
  /\ Settled /\ opState = "threw" /\ opValue = StrBoom
  /\ \E i \in CompletionRecords :
       /\ frame.log[i].record.error # Null
       /\ frame.log[i].record.status.code = "ERROR"

\* C6: a settled invocation has emitted exactly one completion record, on
\* every exit path, and emitted it before the span was closed
C6_OneCompletionRecordBeforeClose ==
  /\ Cardinality(StepsOf(CompletionStep)) = Cardinality(CompletionRecords)
  /\ Cardinality(CompletionRecords) = IF Settled THEN 1 ELSE 0
  /\ \A i \in StepsOf(EndStep) : \E j \in StepsOf(CompletionStep) : j < i

C6_Witness ==
  /\ Settled /\ outState = "threw" /\ outValue = RuntimeTypeError("te:call")
  /\ Cardinality(CompletionRecords) = 1

\* C7: a failure inside alerting (the dispatcher throwing or rejecting, or the
\* alert step itself failing) never reaches the caller and never prevents the
\* re-throw of the error the catch block handled
C7_AlertFailureAbsorbed ==
  Settled =>
    /\ outValue # RuntimeTypeError("te:call")
    /\ AlertFailureLogged => (outState = "threw" /\ outValue = caught)

\* C8: a failure while capturing telemetry never makes the wrapper throw,
\* never prevents the operation from being invoked and never turns a
\* successful operation into a failure
C8_CaptureFailureAbsorbed ==
  Settled =>
    /\ frame.applied = 1
    /\ opState # "none"
    /\ opState = "returned" => outState = "returned"

\* C9: when the operation fails with alertOnError and the instance holds a
\* unifiedAlertService, exactly one alert is handed to it, after the span
\* status is set to ERROR and before the error is re-thrown; a non-critical
\* error goes to sendErrorAlert
C9_OneAlertPerFailure ==
  (/\ Settled /\ opState = "threw" /\ opValue \in PlainErrors
   /\ options.alertOnError /\ self.unifiedAlertService) =>
    /\ Len(frame.alerts) = 1
    /\ \A i \in 1..Len(frame.trace) :
         frame.trace[i].op = "alert" =>
           /\ \E j \in StepsOf(Step("setStatus", "ERROR")) : j < i
           /\ \A j \in StepsOf(EndStep) : i < j
    /\ (~isCriticalError(opValue, options).v) =>
         frame.alerts[1].kind = "sendErrorAlert"
    /\ outValue = opValue

\* C10: one failed invocation calls at most one of sendCriticalErrorAlert and
\* sendErrorAlert: the critical one exactly when the error is classified
\* critical and alertOnCriticalError is set, otherwise sendErrorAlert
C10_AtMostOneRoute ==
  /\ Len(frame.alerts) <= 1
  /\ \A i \in 1..Len(frame.alerts) :
       /\ frame.alerts[i].data.error = caught
       /\ (frame.alerts[i].kind = "sendCriticalErrorAlert")
            <=> (isCriticalError(caught, options).v /\ options.alertOnCriticalError)
       /\ (frame.alerts[i].kind = "sendErrorAlert")
            <=> ~(isCriticalError(caught, options).v /\ options.alertOnCriticalError)

C10_Witness ==
  /\ Settled /\ opState = "threw" /\ opValue = ErrTimeout
  /\ options.severity = "medium" /\ options.businessImpact = "medium"
  /\ Len(frame.alerts) = 1
  /\ frame.alerts[1].kind = "sendCriticalErrorAlert"

\* ===================================================== UnifiedAlertService
\* The dispatcher of src/unnamed/part_014 (unified-alert.service.ts).  A
\* provider is what the AlertProvider interface says: its send methods are
\* async, so a call returns a promise that later fulfils or rejects.  The
\* code from the call of a send method up to the await of Promise.allSettled
\* is one step; every provider promise settles in a step of its own; the
\* code after the await is one step.

\* how many dispatches one run of the service makes, and the longest batch
MaxDispatches == 2
MaxBatch == 2

\* this.providers, by getProviderName()
ProviderRegistry == <<"Microsoft Teams", "Slack", "Google Chat">>
ProviderNames == {ProviderRegistry[i] : i \in 1..Len(ProviderRegistry)}

\* what a provider's promise may reject with
RejectionReasons == {"status 500"}

\* an ErrorAlertData, and the batches of them
SampleAlert == [traceId |-> "t1", serviceName |-> "UserService"]
Batches == {[i \in 1..n |-> SampleAlert] : n \in 0..MaxBatch}

LogRec(level, message, detail) ==
  [level |-> level, message |-> message, detail |-> detail]

RECURSIVE Join(_, _)
\* Array.prototype.join
Join(names, sep) ==
  IF Len(names) = 0 THEN ""
  ELSE IF Len(names) = 1 THEN names[1]
  ELSE names[1] \o sep \o Join(Tail(names), sep)

\* the mutation: every registered provider counts as configured
getConfiguredProvidersUnfiltered(provs, conf) == provs

\* the mutation: a provider whose send failed before is left out
getConfiguredProvidersSkippingFailed(provs, conf) ==
  SelectSeq(provs, LAMBDA p :
    conf[p] /\ ~\E i \in 1..Len(calls) :
                  calls[i].provider = p /\ calls[i].state = "rejected")

\* this.providers.filter((p) => p.isConfigured())
getConfiguredProviders(provs, conf) == SelectSeq(provs, LAMBDA p : conf[p])


\* the constructor's logAvailableProviders()
logAvailableProviders(provs, conf) ==
  (IF Len(SelectSeq(provs, LAMBDA p : conf[p])) > 0
   THEN <<LogRec("log", "Alert providers configured: "
                   \o Join(SelectSeq(provs, LAMBDA p : conf[p]), ", "), "")>>
   ELSE <<>>)
  \o (IF Len(SelectSeq(provs, LAMBDA p : ~conf[p])) > 0
      THEN <<LogRec("log", "Alert providers not configured: "
                      \o Join(SelectSeq(provs, LAMBDA p : ~conf[p]), ", "), "")>>
      ELSE <<>>)
  \o (IF Len(provs) = 0
      THEN <<LogRec("warn", "No alert providers registered", "")>>
      ELSE <<>>)

\* the mutation: only the first configured provider is called
IssuedCallsFirstOnly(cp, d, method, arg) ==
  [i \in 1..1 |->
     [d |-> d, provider |-> cp[i], method |-> method, arg |-> arg,
      state |-> "pending", reason |-> ""]]

\* configuredProviders.map((provider) => provider.<method>(arg)...): one
\* call per configured provider, in registry order, all in the same step
IssuedCalls(cp, d, method, arg) ==
  [i \in 1..Len(cp) |->
     [d |-> d, provider |-> cp[i], method |-> method, arg |-> arg,
      state |-> "pending", reason |-> ""]]

\* .then(() => ({provider, success: true}))
\* .catch((error) => ({provider, success: false, error}))
ChainValue(c) ==
  IF c.state = "fulfilled"
  THEN [provider |-> c.provider, success |-> TRUE, error |-> ""]
  ELSE [provider |-> c.provider, success |-> FALSE, error |-> c.reason]

\* the mutation: the await throws as soon as one provider has rejected
PromiseAllFailFast(cs) ==
  [ready |-> \/ \E i \in 1..Len(cs) : cs[i].state = "rejected"
             \/ \A i \in 1..Len(cs) : cs[i].state # "pending",
   r |-> IF \E i \in 1..Len(cs) : cs[i].state = "rejected"
         THEN Thrown(cs[CHOOSE i \in 1..Len(cs) : cs[i].state = "rejected"].reason)
         ELSE Ok([i \in 1..Len(cs) |->
                    [status |-> "fulfilled", value |-> ChainValue(cs[i])]])]
\* await Promise.allSettled(chains): resumes when every chain has settled,
\* with one {status, value} per chain; it never throws
PromiseAllSettled(cs) ==
  [ready |-> \A i \in 1..Len(cs) : cs[i].state # "pending",
   r |-> Ok([i \in 1..Len(cs) |->
               [status |-> "fulfilled", value |-> ChainValue(cs[i])]])]

\* the mutation: a provider that failed is not counted as a failure
logAlertResultsIgnoringFailed(log, results, alertType) ==
  log \o <<LogRec("log", alertType \o " summary: All "
                    \o ToString(Len(results)) \o " providers succeeded", "")>>

\* the summary line of logAlertResults
SummaryRec(alertType, total, successCount, failureCount) ==
  IF failureCount > 0
  THEN LogRec("warn", alertType \o " summary: " \o ToString(successCount) \o "/"
                \o ToString(total) \o " providers succeeded, "
                \o ToString(failureCount) \o "/" \o ToString(total) \o " failed", "")
  ELSE LogRec("log", alertType \o " summary: All " \o ToString(total)
                \o " providers succeeded", "")

\* logAlertResults, given the three filtered lists
LogResultLists(log, alertType, total, successful, failed, rejected) ==
  log
  \o (IF Len(successful) > 0
      THEN <<LogRec("log", alertType \o " sent successfully via: "
               \o Join([i \in 1..Len(successful) |-> successful[i].value.provider],
                       ", "), "")>>
      ELSE <<>>)
  \o [i \in 1..Len(failed) |->
        LogRec("error", alertType \o " failed via " \o failed[i].value.provider \o ":",
               failed[i].value.error)]
  \o [i \in 1..Len(rejected) |->
        LogRec("error", alertType \o " rejected via provider:", rejected[i].reason)]
  \o <<SummaryRec(alertType, total, Len(successful), Len(failed) + Len(rejected))>>

logAlertResults(log, results, alertType) ==
  LogResultLists(log, alertType, Len(results),
    SelectSeq(results, LAMBDA r : r.status = "fulfilled" /\ r.value.success),
    SelectSeq(results, LAMBDA r : r.status = "fulfilled" /\ ~r.value.success),
    SelectSeq(results, LAMBDA r : r.status = "rejected"))

\* the alertType and the 'skipping' warning of each dispatch method
AlertTypeOf(method) ==
  CASE method = "sendErrorAlert" -> "Error alert"
    [] method = "sendCriticalErrorAlert" -> "Critical error alert"
    [] method = "sendBatchErrorAlerts" -> "Batch error alert"

SkipMessageOf(method) ==
  CASE method = "sendErrorAlert" -> "No alert providers configured, skipping alert"
    [] method = "sendCriticalErrorAlert" ->
         "No alert providers configured, skipping critical alert"
    [] method = "sendBatchErrorAlerts" ->
         "No alert providers configured, skipping batch alert"

\* the mutation: an empty batch is dispatched like any other
BatchIsNeverEmpty(alerts) == FALSE

\* alerts.length === 0
BatchIsEmpty(alerts) == Len(alerts) = 0

\* the mutation: a rejected send is issued again, once
AfterRejectionRetrying(cs, i, reason) ==
  IF Cardinality({j \in 1..Len(cs) : cs[j].d = cs[i].d
                                      /\ cs[j].provider = cs[i].provider}) = 1
  THEN Append([cs EXCEPT ![i].state = "rejected", ![i].reason = reason],
              [cs[i] EXCEPT !.state = "pending"])
  ELSE [cs EXCEPT ![i].state = "rejected", ![i].reason = reason]

\* a provider's promise rejects: its chain's catch handler runs, nothing else
AfterRejection(cs, i, reason) ==
  [cs EXCEPT ![i].state = "rejected", ![i].reason = reason]

\* the send calls of the dispatch in flight
CurrentCalls == SelectSeq(calls, LAMBDA c : c.d = Len(requests))

\* a dispatch returns to its caller
Returns == outcomes' = Append(outcomes, "returned")

\* a dispatch method is called and has passed its empty-batch test: it
\* returns at once when no provider is configured, and otherwise calls the
\* method on every configured provider and stops at the await
FanOut(method, arg, cp) ==
  /\ requests' = Append(requests, [method |-> method, arg |-> arg])
  /\ IF Len(cp) = 0
     THEN /\ svcLog' = Append(svcLog, LogRec("warn", SkipMessageOf(method), ""))
          /\ Returns
          /\ UNCHANGED <<dpc, calls>>
     ELSE /\ calls' = calls \o IssuedCalls(cp, Len(requests) + 1, method, arg)
          /\ dpc' = "awaitAll"
          /\ UNCHANGED <<svcLog, outcomes>>
  /\ UNCHANGED <<providers, configured, webhooks, otherThanDispatcher>>

CanDispatch == dpc = "idle" /\ Len(requests) < MaxDispatches

sendErrorAlert(alertData) ==
  /\ CanDispatch
  /\ FanOut("sendErrorAlert", alertData, getConfiguredProviders(providers, configured))

sendCriticalErrorAlert(alertData) ==
  /\ CanDispatch
  /\ FanOut("sendCriticalErrorAlert", alertData,
            getConfiguredProviders(providers, configured))

sendBatchErrorAlerts(alerts) ==
  /\ CanDispatch
  /\ IF BatchIsEmpty(alerts)
     THEN /\ requests' = Append(requests, [method |-> "sendBatchErrorAlerts",
                                           arg |-> alerts])
          /\ Returns
          /\ UNCHANGED <<providers, configured, dpc, calls, svcLog, webhooks,
                         otherThanDispatcher>>
     ELSE FanOut("sendBatchErrorAlerts", alerts,
                 getConfiguredProviders(providers, configured))

\* the promise of the i-th send call fulfils
ProviderFulfils(i) ==
  /\ dpc = "awaitAll"
  /\ calls[i].d = Len(requests)
  /\ calls[i].state = "pending"
  /\ calls' = [calls EXCEPT ![i].state = "fulfilled"]
  /\ UNCHANGED <<providers, configured, dpc, svcLog, requests, outcomes,
                 webhooks, otherThanDispatcher>>

\* the promise of the i-th send call rejects
ProviderRejects(i, reason) ==
  /\ dpc = "awaitAll"
  /\ calls[i].d = Len(requests)
  /\ calls[i].state = "pending"
  /\ calls' = AfterRejection(calls, i, reason)
  /\ UNCHANGED <<providers, configured, dpc, svcLog, requests, outcomes,
                 webhooks, otherThanDispatcher>>

\* the await of the dispatch in flight resumes
Resumed(joined, method) ==
  /\ joined.ready
  /\ dpc' = "idle"
  /\ IF joined.r.ok
     THEN /\ svcLog' = logAlertResults(svcLog, joined.r.v, AlertTypeOf(method))
          /\ Returns
     ELSE /\ outcomes' = Append(outcomes, "threw")
          /\ UNCHANGED svcLog
  /\ UNCHANGED <<providers, configured, calls, requests, webhooks,
                 otherThanDispatcher>>

AllSettled ==
  /\ dpc = "awaitAll"
  /\ Resumed(PromiseAllSettled(CurrentCalls), requests[Len(requests)].method)

DispatcherInit ==
  /\ providers = ProviderRegistry
  /\ configured \in [ProviderNames -> BOOLEAN]
  /\ dpc = "idle"
  /\ calls = <<>>
  /\ svcLog = logAvailableProviders(providers, configured)
  /\ requests = <<>>
  /\ outcomes = <<>>
  /\ webhooks = <<>>
  /\ WrapperIdle
  /\ ClassifierIdle
  /\ CaptureIdle
  /\ MiddlewareIdle
  /\ ConcurrentIdle

DispatcherNext ==
  \/ sendErrorAlert(SampleAlert)
  \/ sendCriticalErrorAlert(SampleAlert)
  \/ \E alerts \in Batches : sendBatchErrorAlerts(alerts)
  \/ \E i \in 1..Len(calls) : ProviderFulfils(i)
  \/ \E i \in 1..Len(calls), reason \in RejectionReasons : ProviderRejects(i, reason)
  \/ AllSettled

DispatcherSpec == DispatcherInit /\ [][DispatcherNext]_vars

\* ------------------------------------------------- dispatcher properties
ConfiguredSet == {q \in ProviderNames : configured[q]}
CallsOf(d) == {i \in 1..Len(calls) : calls[i].d = d}
CallsTo(d, q) == {i \in CallsOf(d) : calls[i].provider = q}
ProvidersCalledIn(d) == {calls[i].provider : i \in CallsOf(d)}
IsEmptyBatch(d) ==
  requests[d].method = "sendBatchErrorAlerts" /\ Len(requests[d].arg) = 0
\* the dispatches that got past the empty-batch test, by method
Dispatches(method) ==
  {d \in 1..Len(requests) : requests[d].method = method /\ ~IsEmptyBatch(d)}
SkipWarnings(method) ==
  {i \in 1..Len(svcLog) : svcLog[i] = LogRec("warn", SkipMessageOf(method), "")}
DispatchMethods == {"sendErrorAlert", "sendCriticalErrorAlert", "sendBatchErrorAlerts"}
\* the dispatch that returned last made send calls
LastDispatchJoined ==
  /\ dpc = "idle"
  /\ Len(requests) > 0
  /\ CallsOf(Len(requests)) # {}
FailedIn(d) == {i \in CallsOf(d) : calls[i].state = "rejected"}
SucceededIn(d) == {i \in CallsOf(d) : calls[i].state = "fulfilled"}
RECURSIVE NamesOf(_, _)
\* the providers of the calls of ixs among calls[from..], in call order
NamesOf(ixs, from) ==
  IF from > Len(calls) THEN <<>>
  ELSE IF from \in ixs THEN <<calls[from].provider>> \o NamesOf(ixs, from + 1)
  ELSE NamesOf(ixs, from + 1)

\* C11: every dispatch that is not an empty batch calls its own send method on
\* exactly the configured providers and on no unconfigured one; when none is
\* configured it calls nothing and logs the 'skipping' warning of its kind
C11_ExactlyTheConfigured ==
  /\ \A d \in 1..Len(requests) :
       ~IsEmptyBatch(d) =>
         /\ ProvidersCalledIn(d) = ConfiguredSet
         /\ \A i \in CallsOf(d) : calls[i].method = requests[d].method
  /\ \A m \in DispatchMethods :
       Cardinality(SkipWarnings(m)) =
         IF ConfiguredSet = {} THEN Cardinality(Dispatches(m)) ELSE 0

C11_Witness ==
  /\ Cardinality(ConfiguredSet) = 2
  /\ Len(requests) = 1
  /\ requests[1].method = "sendCriticalErrorAlert"
  /\ Cardinality(CallsOf(1)) = 2

C11_WitnessNoneConfigured ==
  /\ ConfiguredSet = {}
  /\ Len(requests) = 1
  /\ Cardinality(SkipWarnings("sendErrorAlert")) = 1

\* C12: sendBatchErrorAlerts with an empty batch returns at once: it calls no
\* provider and logs nothing, whether or not a provider is configured
C12_EmptyBatchIsNoOp ==
  /\ \A d \in 1..Len(requests) : IsEmptyBatch(d) => CallsOf(d) = {}
  /\ Cardinality(SkipWarnings("sendBatchErrorAlerts"))
       <= Cardinality(Dispatches("sendBatchErrorAlerts"))
  /\ (\A d \in 1..Len(requests) : IsEmptyBatch(d)) =>
       /\ svcLog = logAvailableProviders(providers, configured)
       /\ Len(outcomes) = Len(requests)
       /\ \A d \in 1..Len(outcomes) : outcomes[d] = "returned"

C12_Witness ==
  /\ Len(requests) = 2
  /\ \A d \in 1..2 : IsEmptyBatch(d)
  /\ ConfiguredSet = {}
  /\ Len(outcomes) = 2

C12_WitnessConfigured ==
  /\ Len(requests) = 1
  /\ IsEmptyBatch(1)
  /\ ConfiguredSet = ProviderNames
  /\ Len(outcomes) = 1

\* C13: when exactly one of the N sends of a dispatch rejected, the dispatch
\* has still called and awaited all N configured providers, and its report
\* is one error record for that provider, the other N-1 listed as succeeded,
\* and the summary '(N-1)/N providers succeeded, 1/N failed'
C13_OneFailureReported ==
  (LastDispatchJoined /\ Cardinality(FailedIn(Len(requests))) = 1) =>
    LET d == Len(requests)
        n == Cardinality(CallsOf(d))
        at == AlertTypeOf(requests[d].method)
        bad == CHOOSE i \in FailedIn(d) : TRUE
        k == Len(svcLog)
    IN /\ ProvidersCalledIn(d) = ConfiguredSet
       /\ Cardinality(SucceededIn(d)) = n - 1
       /\ svcLog[k] = LogRec("warn", at \o " summary: " \o ToString(n - 1) \o "/"
                               \o ToString(n) \o " providers succeeded, 1/"
                               \o ToString(n) \o " failed", "")
       /\ svcLog[k - 1] = LogRec("error", at \o " failed via "
                                   \o calls[bad].provider \o ":", calls[bad].reason)
       /\ n > 1 => svcLog[k - 2] =
                     LogRec("log", at \o " sent successfully via: "
                              \o Join(NamesOf(SucceededIn(d), 1), ", "), "")

C13_Witness ==
  /\ LastDispatchJoined
  /\ Cardinality(CallsOf(Len(requests))) = 3
  /\ Cardinality(FailedIn(Len(requests))) = 1
  /\ svcLog[Len(svcLog)].level = "warn"

\* C14: no dispatch throws or rejects, even when every send rejected; a
\* dispatch is in flight only while it awaits, and it can resume as soon as
\* every send has settled
C14_DispatchNeverThrows ==
  /\ \A d \in 1..Len(outcomes) : outcomes[d] = "returned"
  /\ Len(requests) = Len(outcomes) + (IF dpc = "awaitAll" THEN 1 ELSE 0)
  /\ (dpc = "awaitAll" /\ \A i \in CallsOf(Len(requests)) : calls[i].state # "pending")
       => ENABLED AllSettled

C14_Witness ==
  /\ Len(outcomes) = 1
  /\ outcomes[1] = "returned"
  /\ Cardinality(CallsOf(1)) = 3
  /\ FailedIn(1) = CallsOf(1)

\* C15: within one dispatch every configured provider's send method is called
\* exactly once, whatever any send did: no retry, no fallback call
C15_EachProviderOnce ==
  \A d \in 1..Len(requests) : \A q \in ProviderNames :
    Cardinality(CallsTo(d, q)) = IF q \in ConfiguredSet /\ ~IsEmptyBatch(d) THEN 1 ELSE 0

C15_Witness ==
  /\ Len(outcomes) = 1
  /\ \E i \in CallsOf(1) : calls[i].state = "rejected"
  /\ \E i \in CallsOf(1) : calls[i].state = "fulfilled"
  /\ Cardinality(CallsOf(1)) = 2

\* C16: a provider whose send failed in an earlier dispatch is called again,
\* once, in every later dispatch while it is configured, and no step of the
\* dispatcher changes the provider registry or what is configured
C16_NoStateBetweenDispatches ==
  /\ [](\A d1 \in 1..Len(requests) : \A d2 \in (d1 + 1)..Len(requests) :
          \A i \in FailedIn(d1) :
            (configured[calls[i].provider] /\ ~IsEmptyBatch(d2))
              => Cardinality(CallsTo(d2, calls[i].provider)) = 1)
  /\ [][providers' = providers /\ configured' = configured]_vars

C16_Witness ==
  /\ Len(requests) = 2
  /\ \E i \in FailedIn(1) : Cardinality(CallsTo(2, calls[i].provider)) = 1

\* C17: the step that calls any provider calls every configured provider
\* (fan-out, before anything is awaited), a provider's promise settling
\* starts no call, and a dispatch returns only in a step taken when every one
\* of its sends has settled (fan-in)
C17_FanOutFanIn ==
  [][/\ calls' # calls /\ Len(calls') > Len(calls) =>
          /\ dpc = "idle" /\ dpc' = "awaitAll"
          /\ {calls'[i].provider : i \in (Len(calls) + 1)..Len(calls')} = ConfiguredSet
          /\ \A i \in (Len(calls) + 1)..Len(calls') : calls'[i].state = "pending"
     /\ (dpc = "awaitAll" /\ dpc' = "idle") =>
          /\ \A i \in CallsOf(Len(requests)) : calls[i].state # "pending"
          /\ Len(outcomes') = Len(outcomes) + 1
     /\ (dpc = "awaitAll" /\ dpc' = "awaitAll") =>
          /\ outcomes' = outcomes
          /\ ProvidersCalledIn(Len(requests)) = ConfiguredSet]_vars

\* the first provider's promise is still pending while both later ones
\* have settled
C17_Witness ==
  /\ dpc = "awaitAll"
  /\ Cardinality(CallsOf(1)) = 3
  /\ calls[1].state = "pending"
  /\ calls[2].state = "fulfilled"
  /\ calls[3].state = "rejected"

\* ========================================================= isCriticalError
\* One evaluation of target.isCriticalError(error, options) on its own, as
\* the tests call it.

\* an Error of each class of the allowlist, with a message and no flag that
\* would make it critical
ErrorsOfCriticalType ==
  {Obj(cls, cls, TRUE, <<Prop("message", MsgInvalid), Prop("stack", StackText)>>) :
     cls \in {"DatabaseConnectionError", "AuthenticationError", "AuthorizationError",
              "ValidationError", "TimeoutError", "NetworkError",
              "PaymentProcessingError", "CriticalBusinessError"}}
\* new Error('..') with severity = 'critical' set on it
ErrSeverityCritical ==
  Obj("e:severity", "Error", TRUE,
      <<Prop("message", MsgNotFound), Prop("stack", StackText),
        Prop("severity", StrCritical)>>)
\* flags that are not === true / === 'critical'
ErrFlagFalse ==
  Obj("e:flagfalse", "Error", TRUE,
      <<Prop("message", MsgNotFound), Prop("stack", StackText),
        Prop("critical", Bool(FALSE)), Prop("severity", Str(<<"h", "i", "g", "h">>))>>)
ErrFlagString ==
  Obj("e:flagstring", "Error", TRUE,
      <<Prop("message", MsgNotFound), Prop("stack", StackText),
        Prop("critical", Str(<<"t", "r", "u", "e">>))>>)
\* new Error('FATAL: disk')
ErrFatal ==
  Obj("e:fatal", "Error", TRUE,
      <<Prop("message", Str(<<"F", "A", "T", "A", "L", ":", " ", "d", "i", "s", "k">>)),
        Prop("stack", StackText)>>)
\* thrown values that are not Error instances: { message: 'Gateway Timeout' },
\* an instance of a class ValidationError that does not extend Error, and
\* the string 'fatal'
ObjTimeoutMessage ==
  Obj("o:timeout", "Object", FALSE, <<Prop("message", MsgTimeout)>>)
ObjNamedValidation ==
  Obj("o:validation", "ValidationError", FALSE, <<Prop("message", MsgInvalid)>>)
StrFatal == Str(<<"f", "a", "t", "a", "l">>)

\* an HttpException-like Error carrying an HTTP status
ErrHttp(status) ==
  Obj("e:http", "HttpException", TRUE,
      <<Prop("message", MsgInvalid), Prop("stack", StackText),
        Prop("status", Num(status))>>)
HttpStatuses == {401, 403, 404, 500, 503}

ClassifiedValues ==
  ThrownValues \cup ErrorsOfCriticalType \cup
  {ErrSeverityCritical, ErrFlagFalse, ErrFlagString, ErrFatal, ObjTimeoutMessage,
   ObjNamedValidation, StrFatal} \cup {ErrHttp(st) : st \in HttpStatuses}

Levels == {"low", "medium", "high", "critical"}
ClassifierOptions ==
  {[(CHOOSE o \in OptionsSet : TRUE) EXCEPT !.severity = sv, !.businessImpact = bi] :
     sv \in Levels, bi \in Levels}

ClassifierInit ==
  /\ clsError \in ClassifiedValues
  /\ clsOptions \in ClassifierOptions
  /\ clsResult = <<>>
  /\ WrapperIdle
  /\ DispatcherIdle
  /\ CaptureIdle
  /\ MiddlewareIdle
  /\ ConcurrentIdle

\* isCriticalError(error, options) is called and returns or throws
Classify ==
  /\ clsResult = <<>>
  /\ clsResult' = <<isCriticalError(clsError, clsOptions)>>
  /\ UNCHANGED <<clsError, clsOptions, otherThanClassifier>>

ClassifierNext == Classify

ClassifierSpec == ClassifierInit /\ [][ClassifierNext]_vars

\* ------------------------------------------------- classifier properties
Classified == clsResult # <<>>
CriticalConfig ==
  clsOptions.severity = "critical" \/ clsOptions.businessImpact = "critical"
\* the allowlist as the specification spells it
AllowlistedTypeNames ==
  {"DatabaseConnectionError", "AuthenticationError", "AuthorizationError",
   "ValidationError", "TimeoutError", "NetworkError", "PaymentProcessingError",
   "CriticalBusinessError"}
HasAllowlistedType(v) == IsObject(v) /\ CtorName(v) \in AllowlistedTypeNames
CarriesCriticalFlag(v) ==
  \/ Get(v, "critical") = Ok(Bool(TRUE))
  \/ Get(v, "severity") = Ok(StrCritical)

\* C18: with severity or businessImpact 'critical', isCriticalError returns
\* true for every value: errors of any type and message, plain objects,
\* strings, null and undefined
C18_CriticalConfigOverrides ==
  (Classified /\ CriticalConfig) => clsResult = <<Ok(TRUE)>>

C18_Witness ==
  /\ clsError = Null
  /\ clsOptions.severity = "low"
  /\ clsOptions.businessImpact = "critical"
  /\ clsResult = <<Ok(TRUE)>>

\* C19: for an Error whose class is one of the eight allowlisted names,
\* isCriticalError returns true whatever the configuration, also when its
\* message has no critical keyword and it carries no flag
C19_AllowlistedTypeIsCritical ==
  (Classified /\ HasAllowlistedType(clsError) /\ clsError.err)
    => clsResult = <<Ok(TRUE)>>

C19_Witness ==
  /\ clsError \in ErrorsOfCriticalType
  /\ CtorName(clsError) = "PaymentProcessingError"
  /\ clsOptions.severity = "medium"
  /\ clsOptions.businessImpact = "medium"
  /\ ~MessageHasKeyword(clsError)
  /\ ~CarriesCriticalFlag(clsError)
  /\ clsResult = <<Ok(TRUE)>>

\* C20: with a configuration that is not critical, isCriticalError returns
\* true exactly when the thrown value has an allowlisted type name, or a
\* message containing a critical keyword in any case, or critical === true or
\* severity === 'critical', and returns false otherwise
C20_TrueIffSomeRule ==
  (Classified /\ ~CriticalConfig) =>
    clsResult = <<Ok(\/ HasAllowlistedType(clsError)
                     \/ MessageHasKeyword(clsError)
                     \/ CarriesCriticalFlag(clsError))>>

\* the HTTP status an error carries is 5xx, 401 or 403
HasCriticalHttpStatus(v) ==
  /\ Get(v, "status").ok
  /\ Get(v, "status").v.t = "number"
  /\ \/ Get(v, "status").v.n \in {401, 403}
     \/ Get(v, "status").v.n \in 500..599

\* C21: an error that carries an HTTP status of 5xx, 401 or 403 is
\* classified critical, whatever the configuration
C21_HttpStatusIsCritical ==
  (Classified /\ HasCriticalHttpStatus(clsError)) => clsResult = <<Ok(TRUE)>>

\* ------------------------------------------------------- body capture
\* CaptureSpec: one call of extractAndSanitizeBody on a carrier of a body
\* and one on a carrier of a variant of that body.  The variant has other
\* values under the keys the options call sensitive and is equal elsewhere.
StrBob == Str(<<"b", "o", "b">>)
StrNote == Str(<<"n", "1">>)

\* v stands under the password keys, w under the token and key ones
CredentialsBody(v, w) ==
  Obj("b1", "Object", FALSE,
      <<Prop("username", StrBob), Prop("password", v), Prop("apiKey", w)>>)

OrdersBody(v, w) ==
  Obj("b2", "Object", FALSE,
      <<Prop("items", Arr("a1",
           <<Obj("b3", "Object", FALSE, <<Prop("token", w), Prop("note", StrNote)>>),
             Obj("b4", "Object", FALSE, <<Prop("Password", v)>>)>>)),
        Prop("note", StrNote)>>)

BodyTemplates == {"credentials", "orders"}
BodyOf(tpl, v, w) ==
  IF tpl = "credentials" THEN CredentialsBody(v, w) ELSE OrdersBody(v, w)

\* request.body, result.data, error.errorBody, or the value itself
Carriers == {"body", "data", "errorBody", "self"}
CarrierOf(c, body) ==
  IF c = "self" THEN body
  ELSE Obj("carrier", "Object", FALSE, <<Prop(c, body)>>)

SecretValues == {
  Str(<<"s", "1">>), Str(<<"s", "e", "c", "r", "e", "t", "2">>), Num(7), Null,
  Bool(TRUE), Undefined, BackRef,
  Obj("n1", "Object", FALSE, <<Prop("code", Num(1))>>),
  Arr("a2", <<Str(<<"s", "1">>)>>)}
KeyValues == {Str(<<"k", "1">>), Num(9)}

PassOnlyFields == <<<<"P", "A", "S", "S">>>>

CaptureOptions(fields, size) == [sensitiveFields |-> fields, maxBodySize |-> size]
BodySizes == {defaultMaxBodySize, SmallBodySize}

CaptureInput(tpl, c, v1, w1, v2, w2, fields, size) ==
  [kind |-> "body", tpl |-> tpl, carrier |-> c, secrets |-> <<v1, v2>>,
   body |-> BodyOf(tpl, v1, w1), variant |-> BodyOf(tpl, v2, w2),
   options |-> CaptureOptions(fields, size)]

\* with the default fragments both kinds of key are sensitive; with the
\* fragment PASS only the password keys are
BodyInputs ==
  {CaptureInput(tpl, c, v1, w1, v2, w2, defaultSensitiveFields, size) :
     tpl \in BodyTemplates, c \in Carriers, v1 \in SecretValues, v2 \in SecretValues,
     w1 \in KeyValues, w2 \in KeyValues, size \in BodySizes}
  \cup
  {CaptureInput(tpl, c, v1, w, v2, w, PassOnlyFields, size) :
     tpl \in BodyTemplates, c \in Carriers, v1 \in SecretValues, v2 \in SecretValues,
     w \in KeyValues, size \in BodySizes}

CaptureBodies ==
  /\ capInput.kind = "body"
  /\ capOut = <<>>
  /\ capOut' = <<extractAndSanitizeBody(CarrierOf(capInput.carrier, capInput.body),
                                         capInput.options),
                 extractAndSanitizeBody(CarrierOf(capInput.carrier, capInput.variant),
                                         capInput.options)>>
  /\ UNCHANGED <<capInput, otherThanCapture>>

\* ---------------------------------------------------------- safeStringify
\* A value is a heap of objects that refer to each other by identity, so a
\* cycle is a real one.  Object 1 is the value passed to the serializer.
MaxNodes == 2
Nodes == 1..MaxNodes
Ref(n) == [t |-> "ref", to |-> n]
StrJohn == Str(<<"J", "o", "h", "n">>)

\* an object with a name and up to two references, 0 for an absent one
NodeProps(selfTo, childTo) ==
  <<Prop("name", StrJohn)>>
  \o (IF selfTo = 0 THEN <<>> ELSE <<Prop("self", Ref(selfTo))>>)
  \o (IF childTo = 0 THEN <<>> ELSE <<Prop("child", Ref(childTo))>>)

Heaps ==
  {[n \in Nodes |-> NodeProps(links[n][1], links[n][2])] :
     links \in [Nodes -> (0..MaxNodes) \X (0..MaxNodes)]}

\* no depth limit: deeper than any path without a repeated object
Unbounded == MaxNodes + 1
SerializeInputs ==
  {[kind |-> "serialize", heap |-> h, maxDepth |-> d] :
     h \in Heaps, d \in {1, Unbounded}}

CircularReference == Str(<<"[", "C", "I", "R", "C", "U", "L", "A", "R", "_",
  "R", "E", "F", "E", "R", "E", "N", "C", "E", "]">>)
MaxDepthReached == Str(<<"[", "M", "A", "X", "_", "D", "E", "P", "T", "H", "_",
  "R", "E", "A", "C", "H", "E", "D", "]">>)

OnActivePathNever(n, path) == FALSE

\* the container is one of those being visited on the active path
OnActivePath(n, path) == n \in path

\* the rendering of object n met at the given depth below the objects of path
RECURSIVE SerializeNode(_, _, _, _, _)
SerializeNode(heap, n, path, depth, maxDepth) ==
  IF OnActivePath(n, path) THEN CircularReference
  ELSE IF depth > maxDepth THEN MaxDepthReached
  ELSE Obj("out", "Object", FALSE,
           [i \in 1..Len(heap[n]) |->
              Prop(heap[n][i].k,
                   IF heap[n][i].v.t = "ref"
                   THEN SerializeNode(heap, heap[n][i].v.to, path \cup {n},
                                      depth + 1, maxDepth)
                   ELSE heap[n][i].v)])

safeStringify(heap, maxDepth) == JsonStr(SerializeNode(heap, 1, {}, 0, maxDepth))

Serialize ==
  /\ capInput.kind = "serialize"
  /\ capOut = <<>>
  /\ capOut' = <<safeStringify(capInput.heap, capInput.maxDepth)>>
  /\ UNCHANGED <<capInput, otherThanCapture>>

CaptureInit ==
  /\ capInput \in BodyInputs \cup SerializeInputs
  /\ capOut = <<>>
  /\ WrapperIdle
  /\ DispatcherIdle
  /\ ClassifierIdle
  /\ MiddlewareIdle
  /\ ConcurrentIdle

CaptureSpecNext == CaptureBodies \/ Serialize

CaptureSpec == CaptureInit /\ [][CaptureSpecNext]_vars

\* ------------------------------------------------------ capture properties
BodiesCaptured == capInput.kind = "body" /\ capOut # <<>>

\* the structure a captured string is the JSON text of, cut or not
HasStructure(s) ==
  \/ "json" \in DOMAIN s
  \/ "of" \in DOMAIN s /\ "json" \in DOMAIN s.of
StructureOf(s) == IF "json" \in DOMAIN s THEN s.json ELSE s.of.json

RECURSIVE SensitiveKeysRedacted(_, _)
SensitiveKeysRedacted(v, fields) ==
  IF IsArray(v)
    THEN \A i \in 1..Len(v.items) : SensitiveKeysRedacted(v.items[i], fields)
  ELSE IF IsObject(v)
    THEN \A i \in 1..Len(v.props) :
           IF KeyIsSensitive(v.props[i].k, fields)
           THEN v.props[i].v = REDACTED
           ELSE SensitiveKeysRedacted(v.props[i].v, fields)
  ELSE TRUE

\* every key of orig that is not sensitive and has a value is in out with it
RECURSIVE SiblingsKept(_, _, _)
SiblingsKept(orig, out, fields) ==
  IF IsArray(orig)
    THEN /\ IsArray(out)
         /\ Len(out.items) = Len(orig.items)
         /\ \A i \in 1..Len(orig.items) :
              SiblingsKept(orig.items[i], out.items[i], fields)
  ELSE IF IsObject(orig)
    THEN /\ IsObject(out)
         /\ \A i \in 1..Len(orig.props) :
              (/\ ~KeyIsSensitive(orig.props[i].k, fields)
               /\ orig.props[i].v.t # "undefined")
              => /\ HasProp(out, orig.props[i].k)
                 /\ SiblingsKept(orig.props[i].v, PropOf(out, orig.props[i].k), fields)
  ELSE out = orig

RedactedCapture(orig, r, fields) ==
  /\ r.ok
  /\ r.v.t = "string"
  /\ HasStructure(r.v)
  /\ SensitiveKeysRedacted(StructureOf(r.v), fields)
  /\ SiblingsKept(orig, StructureOf(r.v), fields)

JsonRenders(v) == v.t \notin {"undefined", "backref"}
SecretsRendered == \A i \in 1..2 : JsonRenders(capInput.secrets[i])

Before(a, b) == \E i \in StepsOf(a), j \in StepsOf(b) : i < j
ResponseBodyStep == Step("setAttributes", "response.body")
SuccessStep == Step("addEvent", "method.execution.success")
HasAttribute(k) == AttrKey(k) \in DOMAIN frame.span.attributes

\* C23: on the success path, whenever response-body capture is enabled and
\* the operation produced a result, response.body and response.body.size are
\* attached to the span, before the success event.
C23_ResponseBodyAttached ==
  (/\ Settled
   /\ outState = "returned"
   /\ options.includeResponseBody
   /\ Truthy(opValue))
  => /\ HasAttribute("response.body")
     /\ HasAttribute("response.body.size")
     /\ Before(ResponseBodyStep, SuccessStep)

\* ------------------------------------------------- serializer properties
Serialized == capInput.kind = "serialize" /\ capOut # <<>>

\* out renders object n of the heap, met below the objects of path: a
\* property that is not a reference has its value, a reference to an object
\* of the path or to n itself is the placeholder, any other reference within
\* the depth limit is rendered in the same way
RECURSIVE CyclesRendered(_, _, _, _, _, _)
CyclesRendered(heap, n, path, depth, maxDepth, out) ==
  /\ IsObject(out)
  /\ Len(out.props) = Len(heap[n])
  /\ \A i \in 1..Len(heap[n]) :
       /\ out.props[i].k = heap[n][i].k
       /\ IF heap[n][i].v.t # "ref" THEN out.props[i].v = heap[n][i].v
          ELSE IF depth + 1 > maxDepth THEN TRUE
          ELSE IF heap[n][i].v.to \in path \cup {n}
            THEN out.props[i].v = CircularReference
          ELSE CyclesRendered(heap, heap[n][i].v.to, path \cup {n}, depth + 1,
                              maxDepth, out.props[i].v)

MwOptions == [enabled : BOOLEAN, redisClient : BOOLEAN, jwtSecret : BOOLEAN]

\* req.headers.authorization: undefined, another scheme, a Bearer token, or
\* a value that is no string
AuthHeaders == {"absent", "basic", "bearer", "array"}

\* the token after 'Bearer ': whether jwt.verify accepts it under the
\* secret, and the company_id of its payload
Tokens == [signed : BOOLEAN, company_id : {"absent", "empty", "c1"}]

\* redisClient.get(key, callback): it throws, or calls back with an error,
\* with no data, or with a text
CacheTexts == {"blocked", "notBlocked", "blockedAsString", "blockedAsOne",
               "noFlag", "null", "garbage"}
CacheReplies == {"getThrows", "error", "noData", "emptyText"} \cup CacheTexts

\* JSON.parse(result): the parsed value, or a SyntaxError
ParsedCache(text) ==
  CASE text = "blocked" -> Ok([is_blocked |-> Bool(TRUE)])
    [] text = "notBlocked" -> Ok([is_blocked |-> Bool(FALSE)])
    [] text = "blockedAsString" -> Ok([is_blocked |-> Str(<<"t", "r", "u", "e">>)])
    [] text = "blockedAsOne" -> Ok([is_blocked |-> Num(1)])
    [] text = "noFlag" -> Ok([is_blocked |-> Undefined])
    [] text = "null" -> Ok(Null)
    [] OTHER -> Thrown("SyntaxError")

\* userData.is_blocked === true; a TypeError when userData is null
IsBlocked(parsed) ==
  IF ~parsed.ok THEN parsed
  ELSE IF parsed.v = Null THEN Thrown("TypeError")
  ELSE Ok(parsed.v.is_blocked = Bool(TRUE))

CallNext(m) == [m EXCEPT !.nextCalls = @ + 1, !.pc = "done"]
LogError(m, what) == [m EXCEPT !.errors = Append(@, what)]
Send403(m) == [m EXCEPT !.sent = Append(@, 403), !.pc = "done"]

\* decodeJWT: null without a secret or when jwt.verify throws
decodeJWT(token, secret) ==
  IF ~secret THEN Null
  ELSE IF ~token.signed THEN Null
  ELSE [t |-> "payload", company_id |-> token.company_id]

\* !decodedToken || !decodedToken.company_id
NoCompany(decoded) ==
  decoded = Null \/ decoded.company_id \in {"absent", "empty"}

\* a callback that answers 403 and then goes on to next()
redisCallbackFallingThrough(m) ==
  IF m.cache = "error" THEN CallNext(LogError(m, "Redis error:"))
  ELSE IF m.cache \in {"noData", "emptyText"} THEN CallNext(m)
  ELSE IF ~IsBlocked(ParsedCache(m.cache)).ok
    THEN CallNext(LogError(m, "Error parsing Redis data:"))
  ELSE IF IsBlocked(ParsedCache(m.cache)).v THEN CallNext(Send403(m))
  ELSE CallNext(m)

\* the callback handed to redisClient.get
redisCallback(m) ==
  IF m.cache = "error" THEN CallNext(LogError(m, "Redis error:"))
  ELSE IF m.cache \in {"noData", "emptyText"} THEN CallNext(m)
  ELSE IF ~IsBlocked(ParsedCache(m.cache)).ok
    THEN CallNext(LogError(m, "Error parsing Redis data:"))
  ELSE IF IsBlocked(ParsedCache(m.cache)).v THEN Send403(m)
  ELSE CallNext(m)

\* use(req, res, next) up to its return
use(m) ==
  IF ~m.options.enabled \/ ~m.options.redisClient THEN CallNext(m)
  ELSE IF m.header = "array"
    THEN CallNext(LogError(m, "Error in UserBlockStatusMiddleware:"))
  ELSE IF m.header # "bearer" THEN CallNext(m)
  ELSE IF NoCompany(decodeJWT(m.token, m.options.jwtSecret)) THEN CallNext(m)
  ELSE IF m.cache = "getThrows"
    THEN CallNext(LogError(m, "Error in UserBlockStatusMiddleware:"))
  ELSE [m EXCEPT !.pc = "waiting"]

MiddlewareInit ==
  /\ mw \in {[pc |-> "start", options |-> o, header |-> h, token |-> tk,
              cache |-> c, nextCalls |-> 0, sent |-> <<>>, errors |-> <<>>] :
             o \in MwOptions, h \in AuthHeaders, tk \in Tokens, c \in CacheReplies}
  /\ WrapperIdle
  /\ DispatcherIdle
  /\ ClassifierIdle
  /\ CaptureIdle
  /\ ConcurrentIdle

Use ==
  /\ mw.pc = "start"
  /\ mw' = use(mw)
  /\ UNCHANGED otherThanMiddleware

RedisReplies ==
  /\ mw.pc = "waiting"
  /\ mw' = redisCallback(mw)
  /\ UNCHANGED otherThanMiddleware

MiddlewareNext == Use \/ RedisReplies

MiddlewareSpec == MiddlewareInit /\ [][MiddlewareNext]_vars

\* ------------------------------------------------ middleware properties
Handled == mw.pc = "done"
TokenVerifies ==
  mw.header = "bearer" /\ mw.options.jwtSecret /\ mw.token.signed
CarriesCompany == mw.token.company_id = "c1"
\* the entry the client holds for the company parses to is_blocked === true
EntryBlocked == mw.options.redisClient /\ mw.cache = "blocked"
OneOutcome ==
  /\ mw.nextCalls + Len(mw.sent) <= 1
  /\ Handled => mw.nextCalls + Len(mw.sent) = 1
  /\ \A i \in 1..Len(mw.sent) : mw.sent[i] = 403

\* C25: for every request exactly one of next() and a 403 response happens,
\* exactly once; the 403 is sent, and next() is not called, exactly when the
\* token verifies, carries a company_id and the cache entry of the company
\* parses to is_blocked === true; every other case calls next().
C25_BlockedIffFlagged ==
  /\ OneOutcome
  /\ Handled =>
       (mw.sent = <<403>> <=> (TokenVerifies /\ CarriesCompany /\ EntryBlocked))

\* C25 as amended: the same for a middleware that is enabled; a middleware
\* that is disabled or has no Redis client calls next() for every request.
C25_EnabledBlockedIffFlagged ==
  /\ OneOutcome
  /\ Handled =>
       (mw.sent = <<403>> <=>
          (/\ mw.options.enabled
           /\ TokenVerifies /\ CarriesCompany /\ EntryBlocked))

\* a blocked company's request answered 403 by the Redis callback
C25_Witness ==
  /\ Handled
  /\ mw.sent = <<403>>
  /\ mw.nextCalls = 0
  /\ mw.cache = "blocked"

\* ------------------------------------------------- built-in providers
\* BuiltinSpec: the dispatcher over its three built-in providers.  A send
\* of TeamsAlertService, SlackAlertService or GoogleChatAlertService posts
\* to the webhook inside a try block whose catch logs the failure and
\* returns, so the promise of the send fulfils whatever the webhook did.
WebhookAnswers == {"ok", "status 500", "network error"}

\* the webhook of the i-th send call answers and the send method returns
BuiltinSendReturns(i, answer) ==
  /\ dpc = "awaitAll"
  /\ calls[i].d = Len(requests)
  /\ calls[i].state = "pending"
  /\ webhooks' = [j \in 1..Len(calls) |->
                    IF j = i THEN answer
                    ELSE IF j <= Len(webhooks) THEN webhooks[j] ELSE "none"]
  /\ calls' = [calls EXCEPT ![i].state = "fulfilled"]
  /\ UNCHANGED <<providers, configured, dpc, svcLog, requests, outcomes,
                 otherThanDispatcher>>

BuiltinNext ==
  \/ sendErrorAlert(SampleAlert)
  \/ sendCriticalErrorAlert(SampleAlert)
  \/ \E alerts \in Batches : sendBatchErrorAlerts(alerts)
  \/ \E i \in 1..Len(calls), answer \in WebhookAnswers : BuiltinSendReturns(i, answer)
  \/ AllSettled

BuiltinSpec == DispatcherInit /\ [][BuiltinNext]_vars

\* ---------------------------------------------- built-in provider properties
\* webhooks[i] is what the webhook answered to the i-th send call
DeliveryFailed(i) ==
  i <= Len(webhooks) /\ webhooks[i] \in WebhookAnswers \ {"ok"}

\* the report of a dispatch: the records logAlertResults adds in the step
ListedAsFailed(report, alertType, q) ==
  \E r \in 1..Len(report) :
    /\ report[r].level = "error"
    /\ report[r].message = alertType \o " failed via " \o q \o ":"
ListedAsSucceeded(report, alertType, q, d) ==
  \E r \in 1..Len(report), ixs \in SUBSET CallsOf(d) :
    /\ \E i \in ixs : calls[i].provider = q
    /\ report[r].level = "log"
    /\ report[r].message =
         alertType \o " sent successfully via: " \o Join(NamesOf(ixs, 1), ", ")

ReportShowsFailures(report, alertType, d) ==
  \A i \in CallsOf(d) :
    DeliveryFailed(i) =>
      /\ ListedAsFailed(report, alertType, calls[i].provider)
      /\ ~ListedAsSucceeded(report, alertType, calls[i].provider, d)

\* C26: when a built-in provider fails to deliver an alert (network error
\* or non-OK webhook response), the report of that dispatch lists the
\* provider as failed and not as succeeded.
C26_FailedProviderReportedFailed ==
  [][(dpc = "awaitAll" /\ dpc' = "idle") =>
       ReportShowsFailures(SubSeq(svcLog', Len(svcLog) + 1, Len(svcLog')),
                           AlertTypeOf(requests[Len(requests)].method),
                           Len(requests))]_vars

\* ------------------------------------------------ order on the success path
StartStep == Step("addEvent", "method.execution.start")
OperationStep == Step("method.apply", "operation")
StatusOkStep == Step("setStatus", "OK")
ArgumentSteps ==
  StepsOf(Step("setAttributes", "method.arg"))
  \cup StepsOf(Step("setAttributes", "request.body"))
CaptureSteps == ArgumentSteps \cup StepsOf(Step("setAttributes", "base"))
Once(st) == Cardinality(StepsOf(st)) = 1
IndexOf(st) == CHOOSE i \in StepsOf(st) : TRUE
SucceededInvocation == Settled /\ outState = "returned"

\* the steps from the operation on are in this order, the response body at
\* most once and between the operation and the success event, the close last
SuccessTail ==
  /\ Once(StartStep) /\ Once(OperationStep) /\ Once(SuccessStep)
  /\ Once(StatusOkStep) /\ Once(CompletionStep) /\ Once(EndStep)
  /\ Cardinality(StepsOf(ResponseBodyStep)) <= 1
  /\ \A i \in StepsOf(ResponseBodyStep) :
       IndexOf(OperationStep) < i /\ i < IndexOf(SuccessStep)
  /\ IndexOf(OperationStep) < IndexOf(SuccessStep)
  /\ IndexOf(SuccessStep) < IndexOf(StatusOkStep)
  /\ IndexOf(StatusOkStep) < IndexOf(CompletionStep)
  /\ IndexOf(CompletionStep) < IndexOf(EndStep)
  /\ IndexOf(EndStep) = Len(frame.trace)

\* C27: on the success path the steps are, each once and in this order: the
\* 'start' event, the per-argument safe attributes and the request body, the
\* operation, the response body, the 'success' event, status OK, the
\* completion log, the span close.
C27_StartEventFirst ==
  SucceededInvocation =>
    /\ SuccessTail
    /\ \A i \in ArgumentSteps :
         IndexOf(StartStep) < i /\ i < IndexOf(OperationStep)

\* C27 as amended: the base attributes, the per-argument safe attributes
\* and the request body come first, then the 'start' event, directly
\* followed by the operation, and then the steps as above.
C27_AttributesThenStartEvent ==
  SucceededInvocation =>
    /\ SuccessTail
    /\ \A i \in 1..(IndexOf(StartStep) - 1) : i \in CaptureSteps
    /\ CaptureSteps \subseteq 1..(IndexOf(StartStep) - 1)
    /\ IndexOf(OperationStep) = IndexOf(StartStep) + 1

\* an invocation with a request body and a response body
C27_Witness ==
  /\ SucceededInvocation
  /\ StepsOf(Step("setAttributes", "request.body")) # {}
  /\ StepsOf(ResponseBodyStep) # {}

\* ------------------------------------------------ order on the failure path
StatusErrorStep == Step("setStatus", "ERROR")
RecordStep == Step("recordException", "error")
ErrorAttributesStep == Step("setAttributes", "error")
AlertSteps ==
  StepsOf(Step("alert", "sendErrorAlert"))
  \cup StepsOf(Step("alert", "sendCriticalErrorAlert"))
FailedInvocation == Settled /\ outState = "threw"
\* every step of as stands before every step of bs
AllBefore(as, bs) == \A i \in as, j \in bs : i < j
AtMostOnce(ixs) == Cardinality(ixs) <= 1

\* the completion log and the span close end the trace, the alert before them
FailureTail ==
  /\ Once(CompletionStep) /\ Once(EndStep)
  /\ AtMostOnce(AlertSteps)
  /\ AllBefore(AlertSteps, StepsOf(CompletionStep))
  /\ IndexOf(CompletionStep) < IndexOf(EndStep)
  /\ IndexOf(EndStep) = Len(frame.trace)

\* while the wrapper awaits the alert the span is open and nothing is logged
AlertSettledBeforeClose ==
  pc = "awaitAlert" =>
    /\ frame.span.ended = 0
    /\ StepsOf(CompletionStep) = {}
    /\ StepsOf(EndStep) = {}

\* C28: on the failure path the error body and error attributes are
\* attached, then the failure event is emitted (the exception recorded),
\* then the status is set to ERROR, then the alert is dispatched, then the
\* completion log is emitted, then the span is closed; the alert dispatch
\* has settled before the span is closed.
C28_AttributesThenEventThenStatus ==
  /\ AlertSettledBeforeClose
  /\ FailedInvocation =>
       /\ FailureTail
       /\ AllBefore(StepsOf(ErrorAttributesStep), StepsOf(RecordStep))
       /\ AllBefore(StepsOf(RecordStep), StepsOf(StatusErrorStep))
       /\ AllBefore(StepsOf(StatusErrorStep), AlertSteps)

\* C28 as amended: the status is set to ERROR first, then the exception is
\* recorded, then the error attributes and error body are attached, then
\* the alert is dispatched, then the completion log, then the span close.
C28_StatusThenRecordThenAttributes ==
  /\ AlertSettledBeforeClose
  /\ FailedInvocation =>
       /\ FailureTail
       /\ Once(StatusErrorStep)
       /\ AtMostOnce(StepsOf(RecordStep))
       /\ AtMostOnce(StepsOf(ErrorAttributesStep))
       /\ AllBefore(StepsOf(StatusErrorStep), StepsOf(RecordStep))
       /\ AllBefore(StepsOf(RecordStep), StepsOf(ErrorAttributesStep))
       /\ AllBefore(StepsOf(ErrorAttributesStep), AlertSteps)
       /\ AlertSteps # {} => StepsOf(ErrorAttributesStep) # {}
       /\ StepsOf(ErrorAttributesStep) # {} => StepsOf(RecordStep) # {}

\* a failed invocation whose alert was dispatched and rejected
C28_Witness ==
  /\ FailedInvocation
  /\ AlertSteps # {}
  /\ AlertFailureLogged
  /\ HasAttribute("error.body")

\* ------------------------------------------------ concurrent invocations
\* ConcurrentSpec: MaxInvocations invocations of decorated methods in
\* flight at once.  invs[k] is the control state of the k-th invocation
\* (the locals of its async wrapper), store holds the span and spanData of
\* every span the tracer has started, by span.
MaxInvocations == 2
Invocations == 1..MaxInvocations

ConcurrentArgLists == {<<PlainArg>>, <<RequestArg>>}
ConcurrentResults == {ResultObject, Str(<<"s", "u", "c", "c", "e", "s", "s">>)}
ConcurrentThrown == {ErrTimeout, Null}
ConcurrentOptions ==
  {o \in OptionsSet :
     /\ o.alertOnError /\ o.alertOnCriticalError
     /\ o.severity = "medium" /\ o.includeRequestBody /\ o.includeUserContext
     /\ o.sensitiveFields = defaultSensitiveFields}
ConcurrentSelf == [unifiedAlertService |-> TRUE, sendUnifiedAlert |-> TRUE]

IdleRun(o) ==
  [pc |-> "idle", options |-> o, args |-> <<>>, span |-> 0, caught |-> Undefined,
   alertPending |-> FALSE, alertOutcome |-> "none", opState |-> "none",
   opValue |-> Undefined, outState |-> "none", outValue |-> Undefined]

\* every invocation writes to one span
SpanHandleShared(k) == 1

\* tracer.startActiveSpan hands each call of the wrapper a span of its own
SpanHandle(k) == k

Put(st, h, f) ==
  [x \in (DOMAIN st) \cup {h} |-> IF x = h THEN f ELSE st[x]]

\* the k-th invocation goes on as run, with f the state of its span
Update(k, run, f) ==
  /\ invs' = [invs EXCEPT ![k] = run]
  /\ store' = Put(store, run.span, f)
  /\ UNCHANGED otherThanConcurrent

\* the run stops at the await of the alert or settles (Continue)
ContinuedRun(run, seg, error) ==
  [run EXCEPT !.pc = IF seg.suspended THEN "awaitAlert" ELSE "done",
              !.caught = error,
              !.alertPending = seg.pending,
              !.outState = IF seg.suspended THEN "none"
                           ELSE IF seg.r.ok THEN "returned" ELSE "threw",
              !.outValue = IF seg.suspended THEN Undefined
                           ELSE IF seg.r.ok THEN seg.r.v ELSE seg.r.e]

ContinueRun(k, run, seg, error) == Update(k, ContinuedRun(run, seg, error), seg.f)

CatchRun(k, run, f, error) ==
  ContinueRun(k, run,
              Settle(CatchBlock(f, error, run.options, ConcurrentSelf, FALSE)),
              error)

StartedRun(k, run, pre) ==
  IF pre.r.ok
  THEN Update(k, [run EXCEPT !.pc = "awaitOp", !.opState = "pending"], pre.f)
  ELSE CatchRun(k, run, pre.f, pre.r.e)

ConcurrentInvoke(k, a) ==
  /\ invs[k].pc = "idle"
  /\ StartedRun(k, [invs[k] EXCEPT !.args = a, !.span = SpanHandle(k)],
                TryPrefix(NewFrame, a, invs[k].options))

ReturnedRun(k, run, suf) ==
  IF suf.r.ok
  THEN ContinueRun(k, run, Finally(suf.f, suf.r), Undefined)
  ELSE CatchRun(k, run, suf.f, suf.r.e)

ConcurrentOpReturns(k, result) ==
  /\ invs[k].pc = "awaitOp"
  /\ ReturnedRun(k, [invs[k] EXCEPT !.opState = "returned", !.opValue = result],
                 TrySuffix(store[invs[k].span], result, invs[k].options))

ConcurrentOpThrows(k, e) ==
  /\ invs[k].pc = "awaitOp"
  /\ CatchRun(k, [invs[k] EXCEPT !.opState = "threw", !.opValue = e],
              store[invs[k].span], e)

ConcurrentAlertFulfils(k) ==
  /\ invs[k].pc = "awaitAlert"
  /\ ContinueRun(k, [invs[k] EXCEPT !.alertOutcome = "fulfilled"],
                 Finally(store[invs[k].span], Thrown(invs[k].caught)),
                 invs[k].caught)

ConcurrentAlertRejects(k) ==
  /\ invs[k].pc = "awaitAlert"
  /\ invs[k].alertPending
  /\ ContinueRun(k, [invs[k] EXCEPT !.alertOutcome = "rejected"],
                 Finally(LoggerCall(store[invs[k].span], "error",
                                    "Failed to send unified alert"),
                         Thrown(invs[k].caught)),
                 invs[k].caught)

ConcurrentInit ==
  /\ invs \in [Invocations -> {IdleRun(o) : o \in ConcurrentOptions}]
  /\ store = <<>>
  /\ WrapperIdle
  /\ DispatcherIdle
  /\ ClassifierIdle
  /\ CaptureIdle
  /\ MiddlewareIdle

ConcurrentNext ==
  \/ \E k \in Invocations, a \in ConcurrentArgLists : ConcurrentInvoke(k, a)
  \/ \E k \in Invocations, v \in ConcurrentResults : ConcurrentOpReturns(k, v)
  \/ \E k \in Invocations, e \in ConcurrentThrown : ConcurrentOpThrows(k, e)
  \/ \E k \in Invocations : ConcurrentAlertFulfils(k)
  \/ \E k \in Invocations : ConcurrentAlertRejects(k)

ConcurrentSpec == ConcurrentInit /\ [][ConcurrentNext]_vars

\* ------------------------------------------------ concurrency properties
\* the span an invocation leaves behind when it runs alone: its arguments,
\* its options, how its operation settled and how its alert settled
SoloEnd(seg, error, alertOutcome) ==
  IF ~seg.suspended THEN Finally(seg.f, seg.r).f
  ELSE IF alertOutcome = "rejected"
    THEN Finally(LoggerCall(seg.f, "error", "Failed to send unified alert"),
                 Thrown(error)).f
  ELSE Finally(seg.f, Thrown(error)).f
SoloCatch(run, f, error) ==
  SoloEnd(CatchBlock(f, error, run.options, ConcurrentSelf, FALSE), error,
          run.alertOutcome)
SoloSuffix(run, suf) ==
  IF suf.r.ok THEN Finally(suf.f, suf.r).f ELSE SoloCatch(run, suf.f, suf.r.e)
SoloPrefix(run, pre) ==
  IF ~pre.r.ok THEN SoloCatch(run, pre.f, pre.r.e)
  ELSE IF run.opState = "returned"
    THEN SoloSuffix(run, TrySuffix(pre.f, run.opValue, run.options))
  ELSE SoloCatch(run, pre.f, run.opValue)
SoloFrame(run) == SoloPrefix(run, TryPrefix(NewFrame, run.args, run.options))

RunStarted(k) == invs[k].pc # "idle"
RunSettled(k) == invs[k].pc = "done"
OwnCompletionRecords(f) ==
  {i \in 1..Len(f.log) : f.log[i].what = "Service Span Complete"}

\* C29: with several invocations in flight and their operations settling
\* in any interleaving, each invocation closes its own span exactly once
\* and its completion record holds the attributes, events, status and error
\* of that invocation only; no step of an invocation changes the span or
\* record of another.
C29_InvocationsIndependent ==
  /\ [](\A k \in Invocations :
          /\ RunStarted(k) =>
               /\ invs[k].span \in DOMAIN store
               /\ \A j \in Invocations \ {k} :
                    RunStarted(j) => invs[j].span # invs[k].span
          /\ (RunStarted(k) /\ ~RunSettled(k)) => store[invs[k].span].span.ended = 0
          /\ RunSettled(k) =>
               /\ store[invs[k].span].span.ended = 1
               /\ store[invs[k].span] = SoloFrame(invs[k])
               /\ \A i \in OwnCompletionRecords(store[invs[k].span]) :
                    store[invs[k].span].log[i].record = SoloFrame(invs[k]).spanData)
  /\ [][\A k \in Invocations :
          (RunStarted(k) /\ invs'[k] = invs[k])
            => store'[invs[k].span] = store[invs[k].span]]_vars

\* two invocations in flight together, the second one settled first and
\* failed, the first one returned after it
C29_Witness ==
  /\ RunSettled(1) /\ RunSettled(2)
  /\ invs[1].outState = "returned"
  /\ invs[2].outState = "threw"
  /\ invs[2].alertOutcome = "rejected"
  /\ invs[1].args # invs[2].args
  /\ store[invs[1].span].span.ended = 1
  /\ store[invs[2].span].span.ended = 1
  /\ store[invs[1].span] # store[invs[2].span]

\* ------------------------------------------------------ the alert gate
\* C30: with alertOnError false no alert of either kind is dispatched for a
\* failed invocation, even when the error is classified critical and
\* alertOnCriticalError is true; and no alert is ever dispatched for an
\* invocation that succeeds.
C30_NoAlertWhenGateClosed ==
  /\ ~options.alertOnError => (frame.alerts = <<>> /\ AlertSteps = {})
  /\ outState = "returned" => (frame.alerts = <<>> /\ AlertSteps = {})

\* a critical error on an instance with a dispatcher, critical alerts on,
\* the gate closed: the catch block ran to its end and nothing was sent
C30_Witness ==
  /\ FailedInvocation
  /\ ~options.alertOnError
  /\ options.alertOnCriticalError
  /\ self.sendUnifiedAlert /\ self.unifiedAlertService
  /\ isCriticalError(caught, options) = Ok(TRUE)
  /\ StepsOf(ErrorAttributesStep) # {}
  /\ frame.alerts = <<>>
====
